---- MODULE Spec2Model ----
(***************************************************************************)
(* Model of the ledgerleaf import pipeline: the column mapper              *)
(* (src/lib/column-mapper.ts, two variants, and the copy of normalizeRow   *)
(* in the import route) and the rule matcher (src/lib/rules/engine.ts and  *)
(* the compiled matcher that lives beside the import route).               *)
(*                                                                         *)
(* Text is modelled as a sequence of one-character strings, so that        *)
(* trimming, case conversion, substring search and number parsing are      *)
(* computed, not assumed.                                                  *)
(***************************************************************************)
EXTENDS Integers, Sequences, FiniteSets, TLC

(***************************************************************************)
(* Bounds of the model.                                                    *)
(***************************************************************************)
\* longest amount cell enumerated character by character
MaxAmtLen == 3
\* longest header list / row enumerated in the row-shape specification
MaxHeaders == 2
MaxRowLen == 2

(***************************************************************************)
(* JavaScript values that are not text.                                    *)
(* Both are sequences whose single element is not one character, so they   *)
(* can be compared with text and never equal any text.                     *)
(***************************************************************************)
Undefined == <<"#undefined">>
TypeError == <<"#TypeError">>

(***************************************************************************)
(* String primitives (ECMAScript String.prototype).                        *)
(***************************************************************************)
UpperChars == <<"A","B","C","D","E","F","G","H","I","J","K","L","M",
                "N","O","P","Q","R","S","T","U","V","W","X","Y","Z">>
LowerChars == <<"a","b","c","d","e","f","g","h","i","j","k","l","m",
                "n","o","p","q","r","s","t","u","v","w","x","y","z">>

toLowerCaseChar(c) ==
  IF \E i \in DOMAIN UpperChars : UpperChars[i] = c
  THEN LowerChars[CHOOSE i \in DOMAIN UpperChars : UpperChars[i] = c]
  ELSE c

toUpperCaseChar(c) ==
  IF \E i \in DOMAIN LowerChars : LowerChars[i] = c
  THEN UpperChars[CHOOSE i \in DOMAIN LowerChars : LowerChars[i] = c]
  ELSE c

toLowerCase(s) == [i \in 1..Len(s) |-> toLowerCaseChar(s[i])]
toUpperCase(s) == [i \in 1..Len(s) |-> toUpperCaseChar(s[i])]

IsWhiteSpace(c) == c \in {" ", "\t", "\n", "\r"}

RECURSIVE trimStart(_)
trimStart(s) ==
  IF s # <<>> /\ IsWhiteSpace(Head(s)) THEN trimStart(Tail(s)) ELSE s

RECURSIVE trimEnd(_)
trimEnd(s) ==
  IF s # <<>> /\ IsWhiteSpace(s[Len(s)])
  THEN trimEnd(SubSeq(s, 1, Len(s) - 1))
  ELSE s

trim(s) == trimEnd(trimStart(s))

\* hay.includes(needle)
includes(hay, needle) ==
  \E i \in 0..(Len(hay) - Len(needle)) :
     SubSeq(hay, i + 1, i + Len(needle)) = needle

startsWith(s, p) == Len(p) <= Len(s) /\ SubSeq(s, 1, Len(p)) = p
endsWith(s, p) ==
  Len(p) <= Len(s) /\ SubSeq(s, Len(s) - Len(p) + 1, Len(s)) = p

\* s.replace(/[<chars>]/g, "")
removeChars(s, chars) == SelectSeq(s, LAMBDA c : c \notin chars)

\* s.replace(/\((.*)\)/, "-$1"): the leftmost "(" that has a ")" after it,
\* greedily up to the last ")"; the text has no line terminator.
replaceParens(s) ==
  LET opens == {i \in DOMAIN s : s[i] = "(" /\ \E j \in DOMAIN s : j > i /\ s[j] = ")"}
  IN IF opens = {} THEN s
     ELSE LET i == CHOOSE k \in opens : \A m \in opens : k <= m
              j == CHOOSE k \in DOMAIN s :
                     /\ s[k] = ")"
                     /\ \A m \in DOMAIN s : s[m] = ")" => m <= k
          IN SubSeq(s, 1, i - 1) \o <<"-">> \o SubSeq(s, i + 1, j - 1)
               \o SubSeq(s, j + 1, Len(s))

(***************************************************************************)
(* Numbers.  An amount is an integer count of 10^-AmountScale units, which *)
(* is exact for every decimal literal with at most AmountScale fraction    *)
(* digits; NaN is a separate flag.                                         *)
(***************************************************************************)
AmountScale == MaxAmtLen + 1

RECURSIVE Pow10(_)
Pow10(n) == IF n = 0 THEN 1 ELSE 10 * Pow10(n - 1)

Unit == Pow10(AmountScale)

Abs(x) == IF x < 0 THEN -x ELSE x

Digits == <<"0","1","2","3","4","5","6","7","8","9">>
IsDigit(c) == \E i \in DOMAIN Digits : Digits[i] = c
DigitVal(c) == (CHOOSE i \in DOMAIN Digits : Digits[i] = c) - 1

\* the longest prefix of s made of decimal digits
LeadingDigits(s) ==
  LET n == CHOOSE k \in 0..Len(s) :
             /\ \A i \in 1..k : IsDigit(s[i])
             /\ (k = Len(s) \/ ~IsDigit(s[k + 1]))
  IN SubSeq(s, 1, n)

RECURSIVE DigitsValue(_)
DigitsValue(d) ==
  IF d = <<>> THEN 0
  ELSE 10 * DigitsValue(SubSeq(d, 1, Len(d) - 1)) + DigitVal(d[Len(d)])

\* the fraction digits as a count of units (digits beyond the scale dropped)
FracValue(d) ==
  IF Len(d) <= AmountScale
  THEN DigitsValue(d) * Pow10(AmountScale - Len(d))
  ELSE DigitsValue(SubSeq(d, 1, AmountScale))

NaN == [isNaN |-> TRUE, val |-> 0]

\* parseFloat: leading white space skipped, then the longest prefix that is
\* a decimal literal [+-]digits[.digits] or [+-].digits; NaN when there is
\* none.  Exponents and "Infinity" are outside the alphabets used here.
parseFloat(text) ==
  LET s == trimStart(text)
      signed == s # <<>> /\ s[1] \in {"+", "-"}
      neg == s # <<>> /\ s[1] = "-"
      body == IF signed THEN Tail(s) ELSE s
      ip == LeadingDigits(body)
      rest == SubSeq(body, Len(ip) + 1, Len(body))
      fp == IF rest # <<>> /\ rest[1] = "." THEN LeadingDigits(Tail(rest)) ELSE <<>>
      mag == DigitsValue(ip) * Unit + FracValue(fp)
  IN IF ip = <<>> /\ fp = <<>> THEN NaN
     ELSE [isNaN |-> FALSE, val |-> IF neg THEN -mag ELSE mag]

\* +x.toFixed(2): the nearest multiple of 0.01, the larger magnitude on a tie
toFixed2(v) ==
  LET step == Unit \div 100
      n == (Abs(v) + step \div 2) \div step
  IN IF v < 0 THEN -(n * step) ELSE n * step

(***************************************************************************)
(* Column mapper: src/lib/column-mapper.ts.                                *)
(***************************************************************************)
REQUIRED_FIELDS == {"date", "amount", "type", "description", "merchant"}

INCOME == <<"I","N","C","O","M","E">>
EXPENSE == <<"E","X","P","E","N","S","E">>

\* arr[i] of a JavaScript array (0-based): undefined beyond its end
At(arr, i) == IF i + 1 \in DOMAIN arr THEN arr[i + 1] ELSE Undefined

\* x ?? d
Nullish(x, d) == IF x = Undefined THEN d ELSE x

\* x.toString(): a TypeError on undefined
toString(x) == IF x = Undefined THEN TypeError ELSE x

\* A plausible slip: the last header equal to the name is taken.
findIndex_Last(headers, name) ==
  IF \E i \in DOMAIN headers : headers[i] = name
  THEN (CHOOSE i \in DOMAIN headers :
          headers[i] = name /\ \A j \in DOMAIN headers : headers[j] = name => j <= i) - 1
  ELSE -1

\* headers.findIndex((h) => h === name), 0-based, -1 when there is none
findIndex(headers, name) ==
  IF \E i \in DOMAIN headers : headers[i] = name
  THEN (CHOOSE i \in DOMAIN headers :
          headers[i] = name /\ \A j \in DOMAIN headers : headers[j] = name => i <= j) - 1
  ELSE -1

\* A plausible slip: the cell is used without the ?? "" default.
get_NoDefault(headers, row, col) ==
  LET i == findIndex(headers, col)
      cell == toString(At(row, i))
  IN IF i >= 0 THEN (IF cell = TypeError THEN TypeError ELSE trim(cell)) ELSE <<>>

\* const get = (col) => { const i = idx(col);
\*   return i >= 0 ? (row[i] ?? "").toString().trim() : "" }
get(headers, row, col) ==
  LET i == findIndex(headers, col)
      cell == toString(Nullish(At(row, i), <<>>))
  IN IF i >= 0 THEN (IF cell = TypeError THEN TypeError ELSE trim(cell)) ELSE <<>>

\* amtRaw = cell.replace(/[$,]/g, "");
\* amount = parseFloat(amtRaw.replace(/\((.*)\)/, "-$1"));
\* if (Number.isNaN(amount)) amount = 0
parseAmount(cell) ==
  LET amtRaw == removeChars(cell, {"$", ","})
      amount == parseFloat(replaceParens(amtRaw))
  IN IF amount.isNaN THEN 0 ELSE amount.val

\* A plausible slip: zero is taken for a negative amount.
inferType_ZeroIsExpense(cell, amount) ==
  LET t == toUpperCase(cell)
  IN IF t \notin {INCOME, EXPENSE}
     THEN (IF amount <= 0 THEN EXPENSE ELSE INCOME)
     ELSE t

\* let t = cell.toUpperCase();
\* if (!["INCOME", "EXPENSE"].includes(t)) t = amount < 0 ? "EXPENSE" : "INCOME"
inferType(cell, amount) ==
  LET t == toUpperCase(cell)
  IN IF t \notin {INCOME, EXPENSE}
     THEN (IF amount < 0 THEN EXPENSE ELSE INCOME)
     ELSE t

Thrown == [threw |-> TRUE]

NormalizedRow(date, amount, t, description, merchant) ==
  [threw |-> FALSE, date |-> date, amount |-> amount, type |-> t,
   description |-> description, merchant |-> merchant]

\* the five cells a call reads; a TypeError in any of them ends the call
Cells(headers, row, map) ==
  [f \in REQUIRED_FIELDS |-> get(headers, row, map[f])]

Throws(cells) == \E f \in DOMAIN cells : cells[f] = TypeError

\* column-mapper.ts, first variant: the magnitude is taken before the
\* sign/type alignment, which therefore never runs.
normalizeRow(headers, row, map) ==
  LET c == Cells(headers, row, map)
      amount0 == parseAmount(c.amount)
      t0 == inferType(c.type, amount0)
      amount1 == Abs(amount0)
      flip == amount1 < 0 /\ t0 = INCOME
      amount2 == IF flip THEN Abs(amount1) ELSE amount1
      t1 == IF flip THEN EXPENSE ELSE t0
  IN IF Throws(c) THEN Thrown
     ELSE NormalizedRow(c.date, toFixed2(amount2), t1, c.description, c.merchant)

\* column-mapper.ts, second variant: the magnitude is taken only when the
\* type is flipped from INCOME, or when the amount is already positive.
normalizeRow2(headers, row, map) ==
  LET c == Cells(headers, row, map)
      amount0 == parseAmount(c.amount)
      t0 == inferType(c.type, amount0)
      flip == amount0 < 0 /\ t0 = INCOME
      amount1 == IF flip THEN Abs(amount0) ELSE amount0
      t1 == IF flip THEN EXPENSE ELSE t0
      amount2 == IF amount1 > 0 /\ t1 = EXPENSE THEN Abs(amount1) ELSE amount1
  IN IF Throws(c) THEN Thrown
     ELSE NormalizedRow(c.date, toFixed2(amount2), t1, c.description, c.merchant)

\* the import route's own normalizeRow: magnitude, no alignment, no rounding
normalizeRowImport(headers, row, m) ==
  LET c == Cells(headers, row, m)
      amount0 == parseAmount(c.amount)
      kind == inferType(c.type, amount0)
  IN IF Throws(c) THEN Thrown
     ELSE NormalizedRow(c.date, Abs(amount0), kind, c.description, c.merchant)

(***************************************************************************)
(* guessMapping, both variants (they differ in the synonym table H).       *)
(***************************************************************************)
H ==
  [ date |-> <<
       <<"d","a","t","e">>,
       <<"d","a","t","e"," ","p","o","s","t","e","d">>,
       <<"t","r","a","n","s","a","c","t","i","o","n"," ","d","a","t","e">>,
       <<"p","o","s","t","e","d">>,
       <<"p","o","s","t","i","n","g"," ","d","a","t","e">>,
       <<"v","a","l","u","e"," ","d","a","t","e">>
     >>,
    amount |-> <<
       <<"a","m","o","u","n","t">>,
       <<"t","r","a","n","s","a","c","t","i","o","n"," ","a","m","o","u","n","t">>,
       <<"a","m","t">>,
       <<"d","e","b","i","t">>,
       <<"c","r","e","d","i","t">>
     >>,
    type |-> <<
       <<"t","y","p","e">>,
       <<"t","r","a","n","s","a","c","t","i","o","n"," ","t","y","p","e">>,
       <<"d","r","/","c","r">>,
       <<"d","i","r","e","c","t","i","o","n">>
     >>,
    description |-> <<
       <<"d","e","s","c","r","i","p","t","i","o","n">>,
       <<"d","e","t","a","i","l","s">>,
       <<"n","a","r","r","a","t","i","v","e">>,
       <<"m","e","m","o">>,
       <<"r","e","f","e","r","e","n","c","e">>
     >>,
    merchant |-> <<
       <<"m","e","r","c","h","a","n","t">>,
       <<"p","a","y","e","e">>,
       <<"n","a","m","e">>,
       <<"c","o","u","n","t","e","r","p","a","r","t","y">>,
       <<"d","e","s","c","r","i","p","t","i","o","n">>
     >> ]

H2 ==
  [ date |-> <<
       <<"d","a","t","e">>,
       <<"t","r","a","n","s","a","c","t","i","o","n"," ","d","a","t","e">>,
       <<"p","o","s","t","e","d">>,
       <<"p","o","s","t","i","n","g"," ","d","a","t","e">>,
       <<"v","a","l","u","e"," ","d","a","t","e">>
     >>,
    amount |-> <<
       <<"a","m","o","u","n","t">>,
       <<"a","m","t">>,
       <<"t","r","a","n","s","a","c","t","i","o","n"," ","a","m","o","u","n","t">>,
       <<"d","e","b","i","t">>,
       <<"c","r","e","d","i","t">>
     >>,
    type |-> <<
       <<"t","y","p","e">>,
       <<"t","r","a","n","s","a","c","t","i","o","n"," ","t","y","p","e">>,
       <<"d","r","/","c","r">>,
       <<"d","i","r","e","c","t","i","o","n">>
     >>,
    description |-> <<
       <<"d","e","s","c","r","i","p","t","i","o","n">>,
       <<"d","e","t","a","i","l","s">>,
       <<"n","a","r","r","a","t","i","v","e">>,
       <<"m","e","m","o">>,
       <<"r","e","f","e","r","e","n","c","e">>
     >>,
    merchant |-> <<
       <<"m","e","r","c","h","a","n","t">>,
       <<"p","a","y","e","e">>,
       <<"n","a","m","e">>,
       <<"c","o","u","n","t","e","r","p","a","r","t","y">>
     >> ]

\* candidates.some((c) => norm(h).includes(c)), norm(s) = s.toLowerCase().trim()
matchesAny(h, candidates) ==
  \E k \in DOMAIN candidates : includes(trim(toLowerCase(h)), candidates[k])

\* headers.find(...) ?? headers[0]
find(headers, candidates) ==
  LET hits == {i \in DOMAIN headers : matchesAny(headers[i], candidates)}
  IN IF hits # {}
     THEN headers[CHOOSE i \in hits : \A j \in hits : i <= j]
     ELSE At(headers, 0)

guessMapping(headers) == [f \in REQUIRED_FIELDS |-> find(headers, H[f])]

guessMapping2(headers) == [f \in REQUIRED_FIELDS |-> find(headers, H2[f])]

(***************************************************************************)
(* State.                                                                  *)
(*   headers, row, map  the arguments of a normalizeRow call               *)
(*   variant            which normalizeRow ran last ("none" before a call) *)
(*   calls              how many calls have returned                       *)
(*   out, prev          the result of the last call and of the one before  *)
(*   rulesTable         the persisted rules (a table: no order of its own) *)
(*   txTable            the persisted transactions                         *)
(*   uncategorized      the id of the "Uncategorized" category, Null until *)
(*                      it has been created                                *)
(*   requests           how many rules-test requests have been answered    *)
(*   loaded             the rule list the last request evaluated           *)
(*   response, prevResponse  the last answer and the one before            *)
(***************************************************************************)
VARIABLES headers, row, map, variant, calls, out, prev,
          rulesTable, txTable, uncategorized, requests, loaded, response,
          prevResponse,
          upload, form, parserCalls, parsedCsv,
          accounts, merchants, categories, ledger, reply, steps,
          page, dialog, procs

normVars == <<headers, row, map, variant, calls, out, prev>>
ruleVars ==
  <<rulesTable, txTable, uncategorized, requests, loaded, response, prevResponse>>
ioVars ==
  <<upload, form, parserCalls, parsedCsv,
    accounts, merchants, categories, ledger, reply, steps>>
uiVars == <<page, dialog, procs>>
vars == <<headers, row, map, variant, calls, out, prev,
          rulesTable, txTable, uncategorized, requests, loaded, response,
          prevResponse,
          upload, form, parserCalls, parsedCsv,
          accounts, merchants, categories, ledger, reply, steps,
          page, dialog, procs>>

\* null (ids are strings)
Null == "null"

NoResponse == [endpoint |-> "none"]

NoUpload == [present |-> FALSE]
NoForm == [user |-> Null]
NoParse == [called |-> FALSE]

\* the upload, import and transaction routes at rest, and an empty database
IoIdle ==
  /\ upload = NoUpload
  /\ form = NoForm
  /\ parserCalls = 0
  /\ parsedCsv = NoParse
  /\ accounts = {}
  /\ merchants = {}
  /\ categories = {}
  /\ ledger = {}
  /\ reply = NoResponse
  /\ steps = 0

\* the import page, the delete dialog and the import requests under way,
\* at rest
NoPage == [mounted |-> FALSE]
NoDialog == [mounted |-> FALSE]

UiIdle ==
  /\ page = NoPage
  /\ dialog = NoDialog
  /\ procs = <<>>

\* the rule matcher at rest, for the specifications of the column mapper
RulesIdle ==
  /\ rulesTable = {}
  /\ txTable = {}
  /\ uncategorized = Null
  /\ requests = 0
  /\ loaded = <<>>
  /\ response = NoResponse
  /\ prevResponse = NoResponse

SeqsUpTo(S, n) == UNION {[1..k -> S] : k \in 0..n}

NoRow == NormalizedRow(<<>>, 0, INCOME, <<>>, <<>>)

NoMap ==
  [bankKey |-> <<"b","a","n","k">>, date |-> <<>>, amount |-> <<>>, type |-> <<>>,
   description |-> <<>>, merchant |-> <<>>]

\* the column mapper at rest, for the specifications of the rule matcher
NormIdle ==
  /\ headers = <<>>
  /\ row = <<>>
  /\ map = NoMap
  /\ variant = "none"
  /\ calls = 0
  /\ out = NoRow
  /\ prev = NoRow

(***************************************************************************)
(* Inputs of the cell-level specification: a CSV with the five columns,    *)
(* every amount cell up to MaxAmtLen characters over AmountAlphabet (and   *)
(* the cells the documentation names), and a few type cells.               *)
(***************************************************************************)
hDate == <<"D","a","t","e">>
hAmount == <<"A","m","o","u","n","t">>
hType == <<"T","y","p","e">>
hDescription == <<"D","e","s","c","r","i","p","t","i","o","n">>
hMerchant == <<"M","e","r","c","h","a","n","t">>

FullHeaders == <<hDate, hAmount, hType, hDescription, hMerchant>>

FullMap ==
  [bankKey |-> <<"b","a","n","k">>, date |-> hDate, amount |-> hAmount, type |-> hType,
   description |-> hDescription, merchant |-> hMerchant]

AmountAlphabet == {"$", ",", "(", ")", "-", "1", ".", "x", " "}

cDollars == <<"$","1",",","2","3","4",".","5","6">>
cParens == <<"(","5","0",".","0","0",")">>
cMinusTen == <<"-","1","0">>
cRounded == <<" ","-","1",".","1","1","7"," ">>
cGarbage == <<"n","/","a">>

NamedAmountCells == {cDollars, cParens, cMinusTen, cRounded, cGarbage}

AmountCells == SeqsUpTo(AmountAlphabet, MaxAmtLen) \cup NamedAmountCells

cFoo == <<"f","o","o">>
TypeCells == {INCOME, <<" ","E","x","p","e","n","s","e"," ">>, cFoo, <<"i","n","c","o","m","e">>}

cDate == <<"2","0","2","4","-","0","1","-","0","5">>
cDescription == <<" ","C","o","f","f","e","e"," ">>
cMerchant == <<"C","a","f","e">>

InitCells ==
  /\ headers = FullHeaders
  /\ \E a \in AmountCells, t \in TypeCells :
       row = <<cDate, a, t, cDescription, cMerchant>>
  /\ map = FullMap
  /\ variant = "none"
  /\ calls = 0
  /\ out = NoRow
  /\ prev = NoRow
  /\ RulesIdle
  /\ IoIdle
  /\ UiIdle

(***************************************************************************)
(* Inputs of the row-shape specification: header lists and rows of every   *)
(* length up to the bounds (so rows shorter than the header list, repeated *)
(* headers and empty lists occur) and mappings that may name no header.    *)
(***************************************************************************)
hAmt == <<"A","m","t">>
hMemo == <<"M","e","m","o">>

HeaderPool == {hAmt, hType}
NamePool == HeaderPool \cup {hMemo}
CellPool == {<<" ","(","1",")"," ">>, <<"i","n","c","o","m","e">>, <<>>}

InitRows ==
  /\ headers \in SeqsUpTo(HeaderPool, MaxHeaders)
  /\ row \in SeqsUpTo(CellPool, MaxRowLen)
  /\ \E a \in NamePool, t \in NamePool, d \in NamePool, m \in NamePool :
       map = [bankKey |-> <<"b","a","n","k">>, date |-> d, amount |-> a, type |-> t,
              description |-> d, merchant |-> m]
  /\ variant = "none"
  /\ calls = 0
  /\ out = NoRow
  /\ prev = NoRow
  /\ RulesIdle
  /\ IoIdle
  /\ UiIdle

(***************************************************************************)
(* Calls.  A call reads its arguments and returns a new record; it assigns *)
(* to nothing it was given.                                                *)
(***************************************************************************)
\* A plausible slip: the call writes the trimmed cells back into the row.
NormalizeRowCall_TrimsInPlace ==
  /\ calls = 0
  /\ out' = normalizeRow(headers, row, map)
  /\ prev' = out
  /\ variant' = "lib"
  /\ calls' = 1
  /\ row' = [i \in DOMAIN row |-> trim(row[i])]
  /\ UNCHANGED <<headers, map>>
  /\ UNCHANGED <<ruleVars, ioVars, uiVars>>

NormalizeRowCall ==
  /\ calls = 0
  /\ out' = normalizeRow(headers, row, map)
  /\ prev' = out
  /\ variant' = "lib"
  /\ calls' = 1
  /\ UNCHANGED <<headers, row, map>>
  /\ UNCHANGED <<ruleVars, ioVars, uiVars>>

NormalizeRow2Call ==
  /\ calls = 0
  /\ out' = normalizeRow2(headers, row, map)
  /\ prev' = out
  /\ variant' = "lib2"
  /\ calls' = 1
  /\ UNCHANGED <<headers, row, map>>
  /\ UNCHANGED <<ruleVars, ioVars, uiVars>>

NormalizeRowImportCall ==
  /\ calls = 0
  /\ out' = normalizeRowImport(headers, row, map)
  /\ prev' = out
  /\ variant' = "import"
  /\ calls' = 1
  /\ UNCHANGED <<headers, row, map>>
  /\ UNCHANGED <<ruleVars, ioVars, uiVars>>

\* the same call once more, on whatever the first call left behind
NormalizeRowAgain ==
  /\ calls = 1
  /\ variant = "lib"
  /\ out' = normalizeRow(headers, row, map)
  /\ prev' = out
  /\ calls' = 2
  /\ UNCHANGED <<headers, row, map, variant>>
  /\ UNCHANGED <<ruleVars, ioVars, uiVars>>

NextNorm ==
  \/ NormalizeRowCall
  \/ NormalizeRow2Call
  \/ NormalizeRowImportCall
  \/ NormalizeRowAgain

SpecCells == InitCells /\ [][NextNorm]_vars
SpecRows == InitRows /\ [][NextNorm]_vars

(***************************************************************************)
(* guessMapping calls: the guess becomes the page's mapping                *)
(* (setMapping({ bankKey, ...guessMapping(data.headers) })).               *)
(***************************************************************************)
MaxGuessHeaders == 3

GuessHeaderPool ==
  {hDate, hAmt, <<" ","T","r","a","n","s","a","c","t","i","o","n"," ","T","y","p","e"," ">>, hMemo, <<"P","a","y","e","e">>, <<"F","o","o">>, <<>>}

WithBankKey(g) ==
  [bankKey |-> <<"b","a","n","k">>, date |-> g.date, amount |-> g.amount, type |-> g.type,
   description |-> g.description, merchant |-> g.merchant]

\* the page guesses only from a header list that is not empty
\* (if (data.headers?.length) ...)
InitGuess ==
  /\ headers \in SeqsUpTo(GuessHeaderPool, MaxGuessHeaders) \ {<<>>}
  /\ row = <<>>
  /\ map = NoMap
  /\ variant = "none"
  /\ calls = 0
  /\ out = NoRow
  /\ prev = NoRow
  /\ RulesIdle
  /\ IoIdle
  /\ UiIdle

GuessMappingCall ==
  /\ calls = 0
  /\ map' = WithBankKey(guessMapping(headers))
  /\ variant' = "guess"
  /\ calls' = 1
  /\ UNCHANGED <<headers, row, out, prev>>
  /\ UNCHANGED <<ruleVars, ioVars, uiVars>>

GuessMapping2Call ==
  /\ calls = 0
  /\ map' = WithBankKey(guessMapping2(headers))
  /\ variant' = "guess2"
  /\ calls' = 1
  /\ UNCHANGED <<headers, row, out, prev>>
  /\ UNCHANGED <<ruleVars, ioVars, uiVars>>

NextGuess ==
  \/ GuessMappingCall
  \/ GuessMapping2Call

SpecGuess == InitGuess /\ [][NextGuess]_vars

(***************************************************************************)
(* Properties of the column mapper.                                        *)
(***************************************************************************)
\* what the claims call the source amount and the mapped type cell
SourceAmount == parseAmount(get(headers, row, map.amount))
TypeCellUpper == toUpperCase(get(headers, row, map.type))
Returned == calls > 0 /\ variant \in {"lib", "lib2", "import"}

\* n hundredths as an amount
Cents(n) == n * (Unit \div 100)

\* C1: the record returned by normalizeRow (any of the three copies) has
\* amount >= 0, whatever the source amount and the resolved type are.
C1_AmountNonNegative ==
  (Returned /\ ~out.threw) => out.amount >= 0

\* C2: when the parsed source amount is negative and the mapped type cell,
\* upper-cased, is INCOME, the returned type is EXPENSE.
C2_NegativeIncomeIsExpense ==
  (Returned /\ ~out.threw /\ SourceAmount < 0 /\ TypeCellUpper = INCOME)
    => out.type = EXPENSE

\* C3: guessMapping returns a non-empty header string for each of the five
\* canonical fields, for every list of headers.
C3_GuessNeverUnresolved ==
  (calls > 0 /\ variant \in {"guess", "guess2"})
    => \A f \in REQUIRED_FIELDS : map[f] # Undefined /\ map[f] # <<>>

\* C4: normalizeRow never throws and returns a record with date, amount,
\* type, description and merchant, for every header list, row and mapping
\* (short rows, garbage cells, mapping fields that name no header).
C4_NormalizeRowTotal ==
  Returned =>
    /\ ~out.threw
    /\ DOMAIN out = REQUIRED_FIELDS \cup {"threw"}
    /\ out.amount \in Int
    /\ out.type \in {INCOME, EXPENSE}
    /\ \A f \in {"date", "description", "merchant"} :
         out[f] \notin {Undefined, TypeError}

\* a call on a row too short for a mapped column, with a mapping field that
\* names no header, that returned a record
C4_Witness ==
  /\ Returned
  /\ ~out.threw
  /\ \E f \in REQUIRED_FIELDS : findIndex(headers, map[f]) >= Len(row)
  /\ \E f \in REQUIRED_FIELDS : findIndex(headers, map[f]) = -1
  /\ get(headers, row, map.amount) = <<"i","n","c","o","m","e">>

\* C5: a type cell that is neither INCOME nor EXPENSE (upper-cased) gives
\* EXPENSE for a negative parsed amount and INCOME otherwise; a cell that is
\* INCOME or EXPENSE with a non-negative amount is returned as it is; type
\* cell "foo" with amount -10 gives EXPENSE and amount 10 (library first
\* variant and import route, whose magnitude the example is about).
C5_TypeInference ==
  (Returned /\ ~out.threw) =>
    /\ TypeCellUpper \notin {INCOME, EXPENSE}
         => out.type = (IF SourceAmount < 0 THEN EXPENSE ELSE INCOME)
    /\ (TypeCellUpper \in {INCOME, EXPENSE} /\ SourceAmount >= 0)
         => out.type = TypeCellUpper
    /\ (variant \in {"lib", "import"} /\ At(row, 1) = cMinusTen /\ At(row, 2) = cFoo)
         => (out.type = EXPENSE /\ out.amount = Cents(1000))

C5_Witness ==
  /\ Returned
  /\ variant = "lib"
  /\ At(row, 1) = cMinusTen
  /\ At(row, 2) = cFoo
  /\ out.type = EXPENSE
  /\ out.amount = Cents(1000)

\* C6: "$1,234.56" gives amount 1234.56, "(50.00)" gives amount 50.00 with
\* type EXPENSE, and amount text that is not a number gives amount 0
\* (library normalizeRow, both variants).
C6_AmountParsing ==
  (Returned /\ variant \in {"lib", "lib2"} /\ ~out.threw) =>
    /\ At(row, 1) = cDollars => out.amount = Cents(123456)
    /\ At(row, 1) = cParens => (out.amount = Cents(5000) /\ out.type = EXPENSE)
    /\ At(row, 1) = cGarbage => out.amount = 0

MaxRules == 2
MaxTxs == 2
MaxRequests == 2

\* x ?? d, for ids
Coalesce(x, d) == IF x = Null THEN d ELSE x

\* s.split(sep), sep one character
RECURSIVE split(_, _)
split(s, sep) ==
  IF \A i \in DOMAIN s : s[i] # sep THEN <<s>>
  ELSE LET i == CHOOSE k \in DOMAIN s :
                  s[k] = sep /\ \A m \in 1..(k - 1) : s[m] # sep
       IN <<SubSeq(s, 1, i - 1)>> \o split(SubSeq(s, i + 1, Len(s)), sep)

\* s.lastIndexOf(c), 0-based, -1 when c does not occur
lastIndexOf(s, c) ==
  IF \E i \in DOMAIN s : s[i] = c
  THEN (CHOOSE i \in DOMAIN s :
          s[i] = c /\ \A j \in DOMAIN s : s[j] = c => j <= i) - 1
  ELSE -1

\* s.slice(a, b), 0-based and half-open, 0 <= a; b beyond the end is the end
slice(s, a, b) == SubSeq(s, a + 1, IF b > Len(s) THEN Len(s) ELSE b)

\* new RegExp(body, flags): a SyntaxError on an unknown or repeated flag.
\* Bodies are alternations of literal text ("|" is the only metacharacter of
\* the patterns used here); the flags g and y, which make test() depend on
\* lastIndex, are not among them.
RegExpFlags == {"d", "g", "i", "m", "s", "u", "v", "y"}

RegExp(body, flags) ==
  IF /\ \A i \in DOMAIN flags : flags[i] \in RegExpFlags
     /\ \A i, j \in DOMAIN flags : i # j => flags[i] # flags[j]
  THEN [kind |-> "regex", body |-> body, flags |-> flags]
  ELSE [kind |-> "SyntaxError", body |-> body, flags |-> flags]

\* re.test(s)
RegExpTest(re, s) ==
  LET ci == \E i \in DOMAIN re.flags : re.flags[i] = "i"
      fold(x) == IF ci THEN toLowerCase(x) ELSE x
      alts == split(re.body, "|")
  IN \E k \in DOMAIN alts : includes(fold(s), fold(alts[k]))

regexPrefix == <<"r","e","g","e","x",":","/">>

\* makeMatcher: the matcher as data (what the closure captured)
makeMatcher(pattern) ==
  LET p == trim(pattern)
      bodyAndFlags == slice(p, Len(regexPrefix), Len(p) - 1)
      lastSlash == lastIndexOf(bodyAndFlags, "/")
  IN IF startsWith(p, regexPrefix) /\ endsWith(p, <<"/">>)
     THEN IF lastSlash > 0
          THEN RegExp(slice(bodyAndFlags, 0, lastSlash),
                      slice(bodyAndFlags, lastSlash + 1, Len(bodyAndFlags)))
          ELSE RegExp(bodyAndFlags, <<>>)
     ELSE [kind |-> "includes", body |-> toLowerCase(p), flags |-> <<>>]

\* the closure makeMatcher returned, applied to s
test(m, s) ==
  IF m.kind = "regex"
  THEN RegExpTest(m, Nullish(s, <<>>))
  ELSE includes(toLowerCase(Nullish(s, <<>>)), m.body)

\* the digits of a natural number
RECURSIVE natToString(_)
natToString(n) ==
  IF n < 10 THEN <<Digits[n + 1]>>
  ELSE natToString(n \div 10) \o <<Digits[(n % 10) + 1]>>

\* n written on exactly w digits
RECURSIVE padToString(_, _)
padToString(n, w) ==
  IF w = 0 THEN <<>>
  ELSE padToString(n \div 10, w - 1) \o <<Digits[(n % 10) + 1]>>

\* the fraction digits of f units (0 < f < Unit, on w digits), without
\* trailing zeros
RECURSIVE fracToString(_, _)
fracToString(f, w) ==
  IF f % 10 = 0 THEN fracToString(f \div 10, w - 1) ELSE padToString(f, w)

\* String(amount)
String(v) ==
  LET a == Abs(v)
      ip == natToString(a \div Unit)
      f == a % Unit
  IN (IF v < 0 THEN <<"-">> ELSE <<>>)
       \o ip \o (IF f = 0 THEN <<>> ELSE <<".">> \o fracToString(f, AmountScale))

compileRule(r) ==
  [id |-> r.id, userId |-> r.userId, priority |-> r.priority, field |-> r.field,
   pattern |-> r.pattern, categoryId |-> r.categoryId,
   match |-> makeMatcher(r.pattern)]

\* compiled.matches(tx)
matches(r, tx) ==
  CASE r.field = "merchant" -> test(r.match, tx.merchant)
    [] r.field = "description" -> test(r.match, tx.description)
    [] r.field = "amount" -> test(r.match, String(tx.amount))
    [] OTHER -> FALSE

\* ORDER BY priority ASC over a set of rows: every arrangement in ascending
\* priority; rows of equal priority come in an order the database chooses.
OrderByPriority(rows) ==
  {s \in [1..Cardinality(rows) -> rows] :
     /\ \A i, j \in DOMAIN s : i # j => s[i] # s[j]
     /\ \A i, j \in DOMAIN s : i < j => s[i].priority <= s[j].priority}

\* the results fetchUserRules can return for a user
fetchUserRules(userId) ==
  {[i \in DOMAIN s |-> compileRule(s[i])] :
     s \in OrderByPriority({r \in rulesTable : r.userId = userId})}

\* A plausible slip: the loop does not stop at the first rule that matches.
RECURSIVE batchLoop_LastWins(_, _, _, _)
batchLoop_LastWins(rules, i, tx, defaultCategoryId) ==
  IF i > Len(rules)
  THEN [txId |-> tx.id, categoryId |-> defaultCategoryId, matchedRuleId |-> Null]
  ELSE LET later == batchLoop_LastWins(rules, i + 1, tx, defaultCategoryId)
       IN IF matches(rules[i], tx) /\ later.matchedRuleId = Null
          THEN [txId |-> tx.id,
                categoryId |-> Coalesce(rules[i].categoryId, defaultCategoryId),
                matchedRuleId |-> rules[i].id]
          ELSE later

\* for (const r of rules) { if (r.matches(tx)) return {...} } return {...}
RECURSIVE batchLoop(_, _, _, _)
batchLoop(rules, i, tx, defaultCategoryId) ==
  IF i > Len(rules)
  THEN [txId |-> tx.id, categoryId |-> defaultCategoryId, matchedRuleId |-> Null]
  ELSE IF matches(rules[i], tx)
       THEN [txId |-> tx.id,
             categoryId |-> Coalesce(rules[i].categoryId, defaultCategoryId),
             matchedRuleId |-> rules[i].id]
       ELSE batchLoop(rules, i + 1, tx, defaultCategoryId)

\* A plausible slip: transactions that no rule matches are left out.
applyRulesToBatch_MatchedOnly(rules, txs, defaultCategoryId) ==
  LET all == [k \in DOMAIN txs |-> batchLoop(rules, 1, txs[k], defaultCategoryId)]
  IN SelectSeq(all, LAMBDA o : o.matchedRuleId # Null)

applyRulesToBatch(rules, txs, defaultCategoryId) ==
  [k \in DOMAIN txs |-> batchLoop(rules, 1, txs[k], defaultCategoryId)]

(***************************************************************************)
(* engine.ts                                                               *)
(***************************************************************************)
\* the merchants the transactions refer to (include: { merchant: true })
mPetro == "m_petro"
mShell == "m_shell"

MerchantTable ==
  [m \in {mPetro, mShell} |->
     IF m = mPetro
     THEN [id |-> mPetro, name |-> <<"P","E","T","R","O","-","C","A","N","A","D","A">>, normalizedName |-> <<"p","e","t","r","o"," ","c","a","n","a","d","a">>]
     ELSE [id |-> mShell, name |-> <<"S","h","e","l","l">>, normalizedName |-> <<"s","h","e","l","l">>]]

merchantName(txn) ==
  IF txn.merchantId = Null THEN <<>> ELSE MerchantTable[txn.merchantId].name

merchantNormalizedName(txn) ==
  IF txn.merchantId = Null THEN <<>> ELSE MerchantTable[txn.merchantId].normalizedName

\* [description, merchant name, normalized name].filter(Boolean).map(lower)
haystacksOf(txn) ==
  LET all == <<txn.description, merchantName(txn), merchantNormalizedName(txn)>>
      kept == SelectSeq(all, LAMBDA s : s # <<>>)
  IN [i \in DOMAIN kept |-> toLowerCase(kept[i])]

NullMatch == [isNull |-> TRUE]

reasonOf(pattern) == <<"p","a","t","t","e","r","n"," ">> \o <<"\"">> \o pattern \o <<"\"">> \o <<" ","m","a","t","c","h","e","d">>

\* needle && haystacks.some((h) => h.includes(needle))
engineHit(haystacks, r) ==
  LET needle == toLowerCase(r.pattern)
  IN needle # <<>> /\ \E k \in DOMAIN haystacks : includes(haystacks[k], needle)

RECURSIVE engineLoop(_, _, _)
engineLoop(haystacks, rules, i) ==
  IF i > Len(rules) THEN NullMatch
  ELSE IF engineHit(haystacks, rules[i])
       THEN [isNull |-> FALSE, ruleId |-> rules[i].id,
             categoryId |-> Coalesce(rules[i].categoryId, Null),
             reason |-> reasonOf(rules[i].pattern)]
       ELSE engineLoop(haystacks, rules, i + 1)

applyRulesToTransaction(txn, rules) == engineLoop(haystacksOf(txn), rules, 1)

(***************************************************************************)
(* The data of the rule specifications.                                    *)
(***************************************************************************)
Users == {"u1", "u2"}

catFuel == "cat_fuel"
catGroceries == "cat_groceries"
catUncategorized == "cat_uncategorized"

pPetro == <<"P","E","T","R","O">>
pRegexFlagged == <<"r","e","g","e","x",":","/","W","A","L","M","A","R","T","|","C","O","S","T","C","O","/","i">>
pRegexPlain == <<"r","e","g","e","x",":","/","W","A","L","|","C","O","S","/">>
pRegexSlashed == <<"r","e","g","e","x",":","/","w","a","l","m","a","r","t","|","c","o","s","t","c","o","/","i","/">>
pRefund == <<" ","R","e","f","u","n","d"," ">>
pAmount == <<"1","2",".","5">>
pEmpty == <<>>
pBlank == <<" ">>

\* what a user may have written: field, pattern and category of a rule
RuleTemplates ==
  { [name |-> "petro", field |-> "merchant", pattern |-> pPetro, categoryId |-> catFuel],
    [name |-> "flagged", field |-> "description", pattern |-> pRegexFlagged,
     categoryId |-> catGroceries],
    [name |-> "plain", field |-> "description", pattern |-> pRegexPlain,
     categoryId |-> Null],
    [name |-> "slashed", field |-> "description", pattern |-> pRegexSlashed,
     categoryId |-> catGroceries],
    [name |-> "refund", field |-> "description", pattern |-> pRefund,
     categoryId |-> Null],
    [name |-> "amount", field |-> "amount", pattern |-> pAmount, categoryId |-> catFuel],
    [name |-> "empty", field |-> "description", pattern |-> pEmpty, categoryId |-> catFuel],
    [name |-> "blank", field |-> "description", pattern |-> pBlank,
     categoryId |-> catGroceries] }

RuleOf(t, p, u) ==
  [id |-> "rule_" \o t.name \o "_" \o ToString(p) \o "_" \o u, userId |-> u,
   priority |-> p, field |-> t.field, pattern |-> t.pattern,
   categoryId |-> t.categoryId]

Template(name) == CHOOSE t \in RuleTemplates : t.name = name

\* the rules users may have stored: priorities 10 and 20, some of them shared
\* (the Rule table has no unique index on userId and priority), and one
\* rule of u2
RulePool ==
  { RuleOf(Template("petro"), 10, "u1"), RuleOf(Template("amount"), 10, "u1"),
    RuleOf(Template("refund"), 10, "u1"), RuleOf(Template("petro"), 20, "u1"),
    RuleOf(Template("plain"), 20, "u1"), RuleOf(Template("flagged"), 20, "u1"),
    RuleOf(Template("slashed"), 20, "u1"), RuleOf(Template("petro"), 10, "u2") }

TxPool ==
  { [id |-> "tx_walmart", userId |-> "u1", date |-> 3,
     description |-> <<"W","A","L","M","A","R","T"," ","#","1","2">>, merchantId |-> mPetro,
     amount |-> Cents(1250), categoryId |-> Null],
    [id |-> "tx_refund", userId |-> "u1", date |-> 2,
     description |-> <<"p","e","t","r","o"," ","r","e","f","u","n","d">>, merchantId |-> mShell,
     amount |-> Cents(300), categoryId |-> catFuel],
    [id |-> "tx_costco", userId |-> "u2", date |-> 1,
     description |-> <<"C","o","s","t","c","o"," ","g","a","s">>, merchantId |-> Null,
     amount |-> Cents(1250), categoryId |-> Null] }

InitRules ==
  /\ NormIdle
  /\ rulesTable \in {s \in SUBSET RulePool : Cardinality(s) <= MaxRules}
  /\ txTable \in {s \in SUBSET TxPool : Cardinality(s) \in 1..MaxTxs}
  /\ uncategorized \in {Null, catUncategorized}
  /\ requests = 0
  /\ loaded = <<>>
  /\ response = NoResponse
  /\ prevResponse = NoResponse
  /\ IoIdle
  /\ UiIdle

(***************************************************************************)
(* The rules-test endpoints.                                               *)
(***************************************************************************)
\* { limit = 20 }
DefaultLimit == 20

\* findMany({ where, orderBy: { date: "desc" }, take }): dates are distinct
recentFirst(rows, take) ==
  LET s == CHOOSE q \in [1..Cardinality(rows) -> rows] :
             /\ \A i, j \in DOMAIN q : i # j => q[i] # q[j]
             /\ \A i, j \in DOMAIN q : i < j => q[i].date > q[j].date
  IN SubSeq(s, 1, IF Len(s) < take THEN Len(s) ELSE take)

\* the TxLite of a transaction row and its merchant's name
TxLite(t) ==
  [id |-> t.id, merchant |-> merchantName(t), description |-> t.description,
   amount |-> t.amount]

\* POST /api/rules/test, answered for the session's user (none: 401)
RulesTestPOST(u) ==
  /\ requests < MaxRequests
  /\ requests' = requests + 1
  /\ prevResponse' = response
  /\ UNCHANGED <<rulesTable, txTable>>
  /\ UNCHANGED <<normVars, ioVars, uiVars>>
  /\ IF u = Null
     THEN /\ response' = [endpoint |-> "POST", status |-> 401, user |-> u]
          /\ UNCHANGED <<uncategorized, loaded>>
     ELSE \E rules \in fetchUserRules(u) :
            LET txs == recentFirst({t \in txTable : t.userId = u}, DefaultLimit)
                lite == [k \in DOMAIN txs |-> TxLite(txs[k])]
                cat == Coalesce(uncategorized, catUncategorized)
            IN /\ uncategorized' = cat
               /\ loaded' = rules
               /\ response' =
                    [endpoint |-> "POST", status |-> 200, user |-> u,
                     count |-> Len(lite),
                     rules |-> [i \in DOMAIN rules |->
                                  [id |-> rules[i].id, priority |-> rules[i].priority,
                                   field |-> rules[i].field, pattern |-> rules[i].pattern,
                                   categoryId |-> rules[i].categoryId]],
                     results |-> applyRulesToBatch(rules, lite, cat)]

\* GET /api/rules/test (no session: every rule and every transaction)
RulesTestGET ==
  /\ requests < MaxRequests
  /\ requests' = requests + 1
  /\ prevResponse' = response
  /\ UNCHANGED <<rulesTable, txTable, uncategorized>>
  /\ UNCHANGED <<normVars, ioVars, uiVars>>
  /\ \E rules \in OrderByPriority(rulesTable) :
       LET txns == recentFirst(txTable, DefaultLimit)
       IN /\ loaded' = rules
          /\ response' =
               [endpoint |-> "GET", status |-> 200, user |-> Null,
                count |-> Len(txns), rules |-> Len(rules),
                sample |-> [k \in DOMAIN txns |->
                   LET match == applyRulesToTransaction(txns[k], rules)
                   IN [id |-> txns[k].id, date |-> txns[k].date,
                       description |-> txns[k].description,
                       merchant |-> IF txns[k].merchantId = Null THEN Undefined
                                    ELSE merchantName(txns[k]),
                       existingCategoryId |-> txns[k].categoryId,
                       suggestedCategoryId |->
                         IF match.isNull THEN Null ELSE match.categoryId,
                       ruleId |-> IF match.isNull THEN Null ELSE match.ruleId,
                       reason |-> IF match.isNull THEN Undefined ELSE match.reason]]]

NextRules ==
  \/ \E u \in Users \cup {Null} : RulesTestPOST(u)
  \/ RulesTestGET

SpecRules == InitRules /\ [][NextRules]_vars

(***************************************************************************)
(* Properties of the rule matcher.                                         *)
(***************************************************************************)
Answered(endpoint) ==
  /\ requests > 0
  /\ response.endpoint = endpoint
  /\ response.status = 200

TxById(id) == CHOOSE t \in txTable : t.id = id

MinOf(S) == CHOOSE x \in S : \A y \in S : x <= y

\* the rules of the evaluated list that accept a transaction, by position
BatchHits(txId) ==
  {i \in DOMAIN loaded : matches(loaded[i], TxLite(TxById(txId)))}

EngineHits(txId) ==
  {i \in DOMAIN loaded : engineHit(haystacksOf(TxById(txId)), loaded[i])}

\* first match wins, as far as the reported rule goes
FirstRuleReported ==
  /\ Answered("POST") =>
       \A k \in DOMAIN response.results :
         LET res == response.results[k]
             hits == BatchHits(res.txId)
         IN IF hits = {} THEN res.matchedRuleId = Null
            ELSE res.matchedRuleId = loaded[MinOf(hits)].id
  /\ Answered("GET") =>
       \A k \in DOMAIN response.sample :
         LET res == response.sample[k]
             hits == EngineHits(res.id)
         IN IF hits = {} THEN res.ruleId = Null
            ELSE /\ res.ruleId = loaded[MinOf(hits)].id
                 /\ res.suggestedCategoryId = loaded[MinOf(hits)].categoryId

\* C8 as stated: the reported rule is the earliest rule of the list that
\* accepts the transaction, and the reported category is that rule's
\* categoryId (possibly null), in the single matcher and in the batch.
C8_FirstMatchWins_RuleCategory ==
  /\ FirstRuleReported
  /\ Answered("POST") =>
       \A k \in DOMAIN response.results :
         LET res == response.results[k]
             hits == BatchHits(res.txId)
         IN hits # {} => res.categoryId = loaded[MinOf(hits)].categoryId

\* C8 as amended: the reported rule is the earliest rule of the list that
\* accepts the transaction; applyRulesToTransaction reports that rule's
\* categoryId (possibly null), applyRulesToBatch reports that rule's
\* categoryId or, when it is null, the caller's default category.
C8_FirstMatchWins ==
  /\ FirstRuleReported
  /\ Answered("POST") =>
       \A k \in DOMAIN response.results :
         LET res == response.results[k]
             hits == BatchHits(res.txId)
         IN hits # {} =>
              res.categoryId = Coalesce(loaded[MinOf(hits)].categoryId, uncategorized)

\* a batch answer where two rules accept a transaction and the earlier one,
\* whose category is null, is the one reported, with the default category
C8_Witness ==
  /\ Answered("POST")
  /\ \E k \in DOMAIN response.results :
       LET res == response.results[k]
           hits == BatchHits(res.txId)
       IN /\ Cardinality(hits) >= 2
          /\ loaded[MinOf(hits)].categoryId = Null
          /\ res.matchedRuleId = loaded[MinOf(hits)].id
          /\ res.categoryId = catUncategorized

\* the rule reported for each transaction
Winners(resp) ==
  IF resp.endpoint = "POST"
  THEN [k \in DOMAIN resp.results |-> resp.results[k].matchedRuleId]
  ELSE [k \in DOMAIN resp.sample |-> resp.sample[k].ruleId]

\* C9: with the rules fetched in ascending priority, the rule that wins for
\* a transaction is the same whatever order the same rule set is stored in
\* (two answers of the same endpoint to the same user over the same tables
\* report the same rules), and it is a matching rule of smallest priority.
C9_WinnerIndependentOfStorageOrder ==
  /\ ( /\ requests >= 2
       /\ response.status = 200
       /\ prevResponse.status = 200
       /\ response.endpoint = prevResponse.endpoint
       /\ response.user = prevResponse.user )
       => Winners(response) = Winners(prevResponse)
  /\ Answered("POST") =>
       \A k \in DOMAIN response.results :
         LET res == response.results[k]
             hits == BatchHits(res.txId)
         IN hits # {} =>
              \E i \in hits :
                /\ loaded[i].id = res.matchedRuleId
                /\ \A j \in hits : loaded[i].priority <= loaded[j].priority

\* a pattern regex:/<body>/<flags> whose body holds no "/"
HasRegexShape(p) ==
  /\ startsWith(p, regexPrefix)
  /\ Cardinality({i \in DOMAIN p : p[i] = "/"}) = 2

ShapeBody(p) == slice(p, Len(regexPrefix), lastIndexOf(p, "/"))
ShapeFlags(p) == slice(p, lastIndexOf(p, "/") + 1, Len(p))

FieldText(field, tx) ==
  CASE field = "merchant" -> tx.merchant
    [] field = "description" -> tx.description
    [] field = "amount" -> String(tx.amount)

\* C10: every pattern regex:/<body>/<flags>, with empty or non-empty flags,
\* is matched as the regular expression <body> with <flags> against the
\* field text, not as a literal substring.
C10_RegexPatternsAreRegex ==
  Answered("POST") =>
    \A i \in DOMAIN loaded :
      HasRegexShape(loaded[i].pattern) =>
        \A t \in txTable :
          matches(loaded[i], TxLite(t))
            = RegExpTest(RegExp(ShapeBody(loaded[i].pattern),
                                ShapeFlags(loaded[i].pattern)),
                         FieldText(loaded[i].field, TxLite(t)))

\* a TxLite with every field but the named one blanked
OnlyField(field, tx) ==
  [id |-> tx.id,
   merchant |-> IF field = "merchant" THEN tx.merchant ELSE <<>>,
   description |-> IF field = "description" THEN tx.description ELSE <<>>,
   amount |-> IF field = "amount" THEN tx.amount ELSE 0]

\* a transaction row with every field but the named one blanked
OnlyFieldTxn(field, t) ==
  [t EXCEPT !.description = IF field = "description" THEN @ ELSE <<>>,
            !.merchantId = IF field = "merchant" THEN @ ELSE Null,
            !.amount = IF field = "amount" THEN @ ELSE 0]

\* C11: a rule is tested only against the field it names: whether a rule
\* accepts a transaction is decided by the named field alone (description,
\* merchant name, or the amount written as text), so blanking the other
\* fields never changes the answer, in the compiled matcher and in
\* applyRulesToTransaction.
C11_OnlyNamedField ==
  /\ Answered("POST") =>
       \A i \in DOMAIN loaded : \A t \in txTable :
         matches(loaded[i], TxLite(t))
           = matches(loaded[i], OnlyField(loaded[i].field, TxLite(t)))
  /\ Answered("GET") =>
       \A i \in DOMAIN loaded : \A t \in txTable :
         engineHit(haystacksOf(t), loaded[i])
           = engineHit(haystacksOf(OnlyFieldTxn(loaded[i].field, t)), loaded[i])

\* C12: when no rule matches a transaction, no rule is reported and the
\* answer of the rules-test endpoint shows the default (Uncategorized)
\* category for that transaction, never null.
C12_NoMatchShowsDefault ==
  /\ Answered("POST") =>
       \A k \in DOMAIN response.results :
         LET res == response.results[k]
         IN BatchHits(res.txId) = {} =>
              /\ res.matchedRuleId = Null
              /\ res.categoryId = catUncategorized
  /\ Answered("GET") =>
       \A k \in DOMAIN response.sample :
         LET res == response.sample[k]
         IN EngineHits(res.id) = {} =>
              /\ res.ruleId = Null
              /\ res.suggestedCategoryId = catUncategorized

\* the transactions a POST answer is about, most recent first
BatchInput ==
  recentFirst({t \in txTable : t.userId = response.user}, DefaultLimit)

OneOutcomePerInput ==
  Answered("POST") =>
    /\ Len(response.results) = Len(BatchInput)
    /\ response.count = Len(BatchInput)
    /\ \A k \in DOMAIN response.results : response.results[k].txId = BatchInput[k].id
    /\ \E s \in OrderByPriority({r \in rulesTable : r.userId = response.user}) :
         /\ loaded = [i \in DOMAIN s |-> compileRule(s[i])]
         /\ response.rules =
              [i \in DOMAIN s |->
                 [id |-> s[i].id, priority |-> s[i].priority, field |-> s[i].field,
                  pattern |-> s[i].pattern, categoryId |-> s[i].categoryId]]

\* C13: applyRulesToBatch returns exactly one outcome per input transaction,
\* the i-th outcome carrying the id of the i-th input, and the call leaves
\* the transactions and the rules as they were.
C13_OneOutcomePerInput ==
  /\ []OneOutcomePerInput
  /\ [][rulesTable' = rulesTable /\ txTable' = txTable]_vars

\* a batch of two transactions, one matched by a rule and one by none
C13_Witness ==
  /\ Answered("POST")
  /\ Len(response.results) = 2
  /\ \E j, k \in DOMAIN response.results :
       /\ response.results[j].matchedRuleId # Null
       /\ response.results[k].matchedRuleId = Null

(***************************************************************************)
(* CSV parsing: src/lib/parse-csv.ts.  An uploaded text is its lines, each *)
(* the raw cells csv-parse would cut it into (an empty line has none), or  *)
(* a text csv-parse rejects (an unterminated quote, say).  A byte-order    *)
(* mark is dropped before the lines are cut and is not modelled.           *)
(***************************************************************************)
MaxLines == 3
MaxLongRows == 6

CsvError == [threw |-> TRUE]

\* parse(text, { columns: false, relaxColumnCount: true,
\*               skipEmptyLines: true, trim: true })
parse(text) ==
  IF text.broken THEN CsvError
  ELSE LET kept == SelectSeq(text.lines, LAMBDA l : l # <<>>)
       IN [threw |-> FALSE,
           records |-> [i \in DOMAIN kept |->
                          [j \in DOMAIN kept[i] |-> trim(kept[i][j])]]]

\* row.join(",")
RECURSIVE join(_, _)
join(cells, sep) ==
  IF cells = <<>> THEN <<>>
  ELSE IF Len(cells) = 1 THEN cells[1]
  ELSE cells[1] \o <<sep>> \o join(Tail(cells), sep)

headerCandidates ==
  <<<<"t","r","a","n","s","a","c","t","i","o","n"," ","t","y","p","e">>, <<"d","a","t","e"," ","p","o","s","t","e","d">>, <<"t","r","a","n","s","a","c","t","i","o","n"," ","a","m","o","u","n","t">>>>

\* headerCandidates.every((c) => row.join(",").toLowerCase().includes(c))
isHeaderRow(r) ==
  LET joined == toLowerCase(join(r, ","))
  IN \A k \in DOMAIN headerCandidates : includes(joined, headerCandidates[k])

\* A plausible slip: the search does not stop at the first header row.
headerRowIndex_LastMatch(records) ==
  LET hits == {i \in DOMAIN records : isHeaderRow(records[i])}
  IN IF hits = {} THEN -1
     ELSE (CHOOSE i \in hits : \A j \in hits : j <= i) - 1

\* for (i = 0; ...) if (matches) { headerRowIndex = i; break }: 0-based, -1
headerRowIndex(records) ==
  LET hits == {i \in DOMAIN records : isHeaderRow(records[i])}
  IN IF hits = {} THEN -1
     ELSE (CHOOSE i \in hits : \A j \in hits : i <= j) - 1

trimAll(cells) == [j \in DOMAIN cells |-> trim(cells[j])]

\* the loop over the records after the header, from 0-based index i
RECURSIVE dataRows(_, _)
dataRows(records, i) ==
  IF i >= Len(records) THEN <<>>
  ELSE LET r == records[i + 1]
           rest == dataRows(records, i + 1)
       IN IF Len(r) = 0 THEN rest
          ELSE IF Len(r) > 1 THEN <<trimAll(r)>> \o rest
          ELSE IF includes(r[1], <<",">>) THEN <<trimAll(split(r[1], ","))>> \o rest
          ELSE rest

parseCsvStrict(text) ==
  LET parsed == parse(text)
      records == parsed.records
      h == headerRowIndex(records)
      rawHeaderRow == records[h + 1]
  IN IF parsed.threw THEN CsvError
     ELSE IF Len(records) = 0 \/ h = -1
     THEN [threw |-> FALSE, headers |-> <<>>, rows |-> <<>>]
     ELSE [threw |-> FALSE,
           headers |-> IF Len(rawHeaderRow) > 1 THEN trimAll(rawHeaderRow)
                       ELSE trimAll(split(rawHeaderRow[1], ",")),
           rows |-> dataRows(records, h + 1)]

(***************************************************************************)
(* Texts: every text of up to MaxLines lines over LinePool, and statements *)
(* of two junk lines, a header line and up to MaxLongRows numbered data    *)
(* lines.                                                                  *)
(***************************************************************************)
lJunk == <<<<"F","o","l","l","o","w","i","n","g"," ","d","a","t","a"," ","i","s"," ","v","a","l","i","d"," ","a","s"," ","o","f"," ","2","0","2","4">>>>
lPartial == <<<<"T","r","a","n","s","a","c","t","i","o","n"," ","T","y","p","e">>, <<" ","C","a","r","d"," ","1","2","3","4"," ">>>>
lHeader == <<<<"T","r","a","n","s","a","c","t","i","o","n"," ","T","y","p","e">>, <<" ","D","a","t","e"," ","P","o","s","t","e","d"," ">>, <<"T","r","a","n","s","a","c","t","i","o","n"," ","A","m","o","u","n","t">>, <<"D","e","s","c","r","i","p","t","i","o","n">>>>
lHeaderJoined == <<<<"T","R","A","N","S","A","C","T","I","O","N"," ","T","Y","P","E",",","D","A","T","E"," ","P","O","S","T","E","D",","," ","T","R","A","N","S","A","C","T","I","O","N"," ","A","M","O","U","N","T",",","D","E","S","C","R","I","P","T","I","O","N">>>>
lData == <<<<"D","E","B","I","T">>, <<"2","0","2","4","-","0","1","-","0","5">>, <<" ","-","1","2",".","5","0"," ">>, <<"P","E","T","R","O">>>>
lDataJoined == <<<<"C","R","E","D","I","T",",","2","0","2","4","-","0","1","-","0","6",","," ","1","0","0",".","0","0",",","P","A","Y","R","O","L","L">>>>
lEmpty == <<>>

LinePool == {lJunk, lPartial, lHeader, lHeaderJoined, lData, lDataJoined, lEmpty}

NumberedLine(k) ==
  <<<<"D","E","B","I","T">>, <<"2","0","2","4","-","0","1","-","0">> \o <<Digits[k + 1]>>, <<Digits[k + 1]>>, <<"P","E","T","R","O">>>>

LongText(n) ==
  [broken |-> FALSE, lines |-> <<lJunk, lPartial, lHeader>> \o [k \in 1..n |-> NumberedLine(k)]]

BrokenText == [broken |-> TRUE, lines |-> <<lHeader>>]

ShortTexts == {[broken |-> FALSE, lines |-> ls] : ls \in SeqsUpTo(LinePool, MaxLines)}

csvName == <<"b","a","n","k",".","c","s","v">>
csvMime == <<"t","e","x","t","/","c","s","v">>

CsvFile(text) ==
  [present |-> TRUE, filename |-> csvName, mime |-> csvMime, size |-> 1024,
   text |-> text]

InitParse ==
  /\ NormIdle
  /\ RulesIdle
  /\ UiIdle
  /\ upload \in {CsvFile(t) : t \in ShortTexts \cup {BrokenText} \cup {LongText(n) : n \in 0..MaxLongRows}}
  /\ form = NoForm
  /\ parserCalls = 0
  /\ parsedCsv = NoParse
  /\ accounts = {}
  /\ merchants = {}
  /\ categories = {}
  /\ ledger = {}
  /\ reply = NoResponse
  /\ steps = 0

\* a call of parseCsvStrict on the uploaded text
ParseCsvStrictCall ==
  /\ parserCalls = 0
  /\ parserCalls' = 1
  /\ parsedCsv' = [called |-> TRUE] @@ parseCsvStrict(upload.text)
  /\ UNCHANGED <<upload, form, accounts, merchants, categories, ledger, reply, steps>>
  /\ UNCHANGED <<normVars, ruleVars, uiVars>>

NextParse == ParseCsvStrictCall

SpecParse == InitParse /\ [][NextParse]_vars

Parsed == parsedCsv.called /\ ~parsedCsv.threw

\* the records csv-parse cut the uploaded text into
Records == parse(upload.text).records

HeaderHits == {i \in DOMAIN Records : isHeaderRow(Records[i])}

FirstHeader == MinOf(HeaderHits)

\* the cells of a record: its cells, or its only cell cut at the commas
CellsOf(r) == IF Len(r) > 1 THEN trimAll(r) ELSE trimAll(split(r[1], ","))

\* a record that looks like a data row: several cells, or one with a comma
LooksLikeData(r) == Len(r) > 1 \/ includes(r[1], <<",">>)

HeaderIsEarliest ==
  Parsed =>
    IF HeaderHits = {}
    THEN parsedCsv.headers = <<>> /\ parsedCsv.rows = <<>>
    ELSE parsedCsv.headers = CellsOf(Records[FirstHeader])

\* C14 as stated: the header is the earliest row whose lower-cased,
\* comma-joined cells contain the three column names; no row before it
\* appears in the result, and every row after it appears, in order, as a
\* data row.
C14_HeaderThenEveryRow ==
  /\ HeaderIsEarliest
  /\ (Parsed /\ HeaderHits # {}) =>
       parsedCsv.rows =
         [k \in 1..(Len(Records) - FirstHeader) |-> CellsOf(Records[FirstHeader + k])]

\* C14 as amended: the header is the earliest such row; no row before it
\* appears in the result, and the rows after it that have several cells, or
\* one cell holding a comma, appear in order as data rows (a one-cell row
\* cut at its commas); a row after it with one cell and no comma is left out.
C14_HeaderThenDataRows ==
  /\ HeaderIsEarliest
  /\ (Parsed /\ HeaderHits # {}) =>
       parsedCsv.rows =
         LET after == [k \in 1..(Len(Records) - FirstHeader) |-> Records[FirstHeader + k]]
             kept == SelectSeq(after, LooksLikeData)
         IN [k \in DOMAIN kept |-> CellsOf(kept[k])]

\* two junk lines, the header, then data: the header is the third record
\* and the data rows are the rows after it
C14_Witness ==
  /\ Parsed
  /\ HeaderHits # {}
  /\ FirstHeader = 3
  /\ Len(parsedCsv.rows) >= 2
  /\ parsedCsv.headers[1] = <<"T","r","a","n","s","a","c","t","i","o","n"," ","T","y","p","e">>

(***************************************************************************)
(* Upload preview: src/app/api/upload-csv/route.ts.                        *)
(***************************************************************************)
MAX_SIZE == 5 * 1024 * 1024

CsvMimes == {<<"t","e","x","t","/","c","s","v">>, <<"a","p","p","l","i","c","a","t","i","o","n","/","v","n","d",".","m","s","-","e","x","c","e","l">>, <<"a","p","p","l","i","c","a","t","i","o","n","/","c","s","v">>}

\* filename: z.string().min(1).refine((n) => n.toLowerCase().endsWith(".csv"))
filenameOk(n) == Len(n) >= 1 /\ endsWith(toLowerCase(n), <<".","c","s","v">>)

\* mime: one of the three CSV types
mimeOk(t) == t \in CsvMimes

\* A plausible slip: the size is not limited.
sizeOk_Unlimited(n) == n >= 0

\* size: z.number().max(MAX_SIZE)
sizeOk(n) == n <= MAX_SIZE

\* UploadSchema.safeParse(meta): the fields that have issues
UploadSchemaIssues(meta) ==
  {f \in {"filename", "mime", "size"} :
     \/ f = "filename" /\ ~filenameOk(meta.filename)
     \/ f = "mime" /\ ~mimeOk(meta.mime)
     \/ f = "size" /\ ~sizeOk(meta.size)}

\* rows.slice(0, 5)
SampleSize == 5

FileNames == {csvName, <<"B","A","N","K",".","C","S","V">>, <<"b","a","n","k",".","c","s","v",".","t","x","t">>, <<>>}
MimeTypes == CsvMimes \cup {<<"t","e","x","t","/","p","l","a","i","n">>, <<>>}
FileSizes == {0, MAX_SIZE, MAX_SIZE + 1}

UploadTexts ==
  {LongText(n) : n \in 0..MaxLongRows}
    \cup {BrokenText, [broken |-> FALSE, lines |-> <<lJunk, lData>>]}

InitUpload ==
  /\ NormIdle
  /\ RulesIdle
  /\ UiIdle
  /\ upload \in {NoUpload} \cup
       {[present |-> TRUE, filename |-> n, mime |-> m, size |-> z, text |-> t] :
          n \in FileNames, m \in MimeTypes, z \in FileSizes, t \in UploadTexts}
  /\ form = NoForm
  /\ parserCalls = 0
  /\ parsedCsv = NoParse
  /\ accounts = {}
  /\ merchants = {}
  /\ categories = {}
  /\ ledger = {}
  /\ reply = NoResponse
  /\ steps = 0

\* POST /api/upload-csv
UploadCsvPOST ==
  /\ steps = 0
  /\ steps' = 1
  /\ UNCHANGED <<upload, form, accounts, merchants, categories, ledger>>
  /\ UNCHANGED <<normVars, ruleVars, uiVars>>
  /\ IF ~upload.present
     THEN /\ reply' = [endpoint |-> "upload", status |-> 400, error |-> "Missing file"]
          /\ UNCHANGED <<parserCalls, parsedCsv>>
     ELSE LET meta == [filename |-> upload.filename, mime |-> upload.mime,
                       size |-> upload.size]
              issues == UploadSchemaIssues(meta)
              result == parseCsvStrict(upload.text)
          IN IF issues # {}
             THEN /\ reply' = [endpoint |-> "upload", status |-> 400,
                               error |-> [formErrors |-> {}, fieldErrors |-> issues]]
                  /\ UNCHANGED <<parserCalls, parsedCsv>>
             ELSE /\ parserCalls' = parserCalls + 1
                  /\ parsedCsv' = [called |-> TRUE] @@ result
                  /\ reply' =
                       IF result.threw
                       THEN [endpoint |-> "upload", status |-> 500,
                             error |-> "Failed to parse CSV"]
                       ELSE [endpoint |-> "upload", status |-> 200,
                             headers |-> result.headers,
                             sample |-> slice(result.rows, 0, SampleSize),
                             rowCount |-> Len(result.rows)]

NextUpload == UploadCsvPOST

SpecUpload == InitUpload /\ [][NextUpload]_vars

UploadAnswered == reply.endpoint = "upload"

\* the conditions of the claim on the uploaded file
NameEndsWithCsv == endsWith(toLowerCase(upload.filename), <<".","c","s","v">>)
MimeIsCsv ==
  upload.mime \in {<<"t","e","x","t","/","c","s","v">>, <<"a","p","p","l","i","c","a","t","i","o","n","/","v","n","d",".","m","s","-","e","x","c","e","l">>, <<"a","p","p","l","i","c","a","t","i","o","n","/","c","s","v">>}
AtMostFiveMB == upload.size <= 5 * 1024 * 1024

MinNat(a, b) == IF a < b THEN a ELSE b

\* C18: the upload-preview handler calls the parser only when the file name
\* ends with .csv (case-insensitively), the MIME type is one of the three
\* CSV types and the size is at most 5 MB; otherwise it answers 400 with
\* structured field errors and does not parse.  On success it returns the
\* headers, the first min(5, n) data rows as sample and rowCount = n.
C18_UploadValidatedBeforeParsing ==
  /\ parserCalls > 0 =>
       upload.present /\ NameEndsWithCsv /\ MimeIsCsv /\ AtMostFiveMB
  /\ (UploadAnswered /\ upload.present
        /\ ~(NameEndsWithCsv /\ MimeIsCsv /\ AtMostFiveMB)) =>
       /\ reply.status = 400
       /\ reply.error.fieldErrors # {}
       /\ parserCalls = 0
       /\ parsedCsv = NoParse
  /\ (UploadAnswered /\ reply.status = 200) =>
       LET p == parseCsvStrict(upload.text)
           n == Len(p.rows)
       IN /\ reply.headers = p.headers
          /\ reply.rowCount = n
          /\ Len(reply.sample) = MinNat(5, n)
          /\ \A k \in DOMAIN reply.sample : reply.sample[k] = p.rows[k]

\* a preview of a statement with more than five data rows
C18_Witness ==
  /\ UploadAnswered
  /\ reply.status = 200
  /\ reply.rowCount > 5
  /\ Len(reply.sample) = 5
  /\ upload.filename = <<"B","A","N","K",".","C","S","V">>

(***************************************************************************)
(* Import: src/app/api/import/transactions/route.ts.  Ids are texts; the   *)
(* empty text stands for an absent session user.                           *)
(***************************************************************************)
MaxImportRows == 2
MaxImports == 2

NoId == <<>>

\* z.string().min(1) on bankKey and the five fields, and on accountName
ImportFormSchemaOk(f) ==
  /\ Len(f.accountName) >= 1
  /\ \A k \in DOMAIN f.mapping : Len(f.mapping[k]) >= 1

\* parseCsv of the import route: the same csv-parse options, no header search
parseCsv(text) == parse(text)

\* A plausible slip: a file with a header row alone is taken to have data.
hasDataRows_HeaderAlone(rows) == Len(rows) >= 1

\* !(rows.length < 2)
hasDataRows(rows) == ~(Len(rows) < 2)

\* new Date(text) for the date cells used here: a date YYYY-MM-DD, and an
\* Invalid Date for the empty text and for text with no date in it.  (The
\* other shapes V8 accepts are not among the cells of the pools.)
InvalidDate == [invalid |-> TRUE, ymd |-> 0]

isIsoDate(s) ==
  /\ Len(s) = 10
  /\ s[5] = "-" /\ s[8] = "-"
  /\ \A i \in {1, 2, 3, 4, 6, 7, 9, 10} : IsDigit(s[i])
  /\ DigitsValue(SubSeq(s, 6, 7)) \in 1..12
  /\ DigitsValue(SubSeq(s, 9, 10)) \in 1..31

newDate(s) ==
  IF isIsoDate(s)
  THEN [invalid |-> FALSE,
        ymd |-> DigitsValue(SubSeq(s, 1, 4)) * 10000
                  + DigitsValue(SubSeq(s, 6, 7)) * 100 + DigitsValue(SubSeq(s, 9, 10))]
  ELSE InvalidDate

\* a.toFixed(2) as text
toFixedText(a) ==
  LET r == toFixed2(a)
      m == Abs(r)
  IN (IF r < 0 THEN <<"-">> ELSE <<>>)
       \o natToString(m \div Unit) \o <<".">> \o padToString((m % Unit) \div (Unit \div 100), 2)

\* `${userId}|${accountId}|${d}|${a.toFixed(2)}|${desc}`.toLowerCase()
makeKey(userId, accountId, d, a, desc) ==
  toLowerCase(userId \o <<"|">> \o accountId \o <<"|">> \o d \o <<"|">>
                \o toFixedText(a) \o <<"|">> \o desc)

\* a value stored in a DECIMAL(14,2) column
Decimal2(v) == toFixed2(v)

\* findFirst({ where: { userId, name } }) ?? create(...)
getOrCreateAccount(accts, userId, name) ==
  LET found == {a \in accts : a.userId = userId /\ a.name = name}
      made == [id |-> <<"a","c","c","t">> \o natToString(Cardinality(accts) + 1),
               userId |-> userId, name |-> name, type |-> "OTHER"]
  IN IF found # {}
     THEN [account |-> CHOOSE a \in found : TRUE, accounts |-> accts]
     ELSE [account |-> made, accounts |-> accts \cup {made}]

\* n = (name || "").trim() || "Unknown"; findFirst({ name: n }) ?? create
getOrCreateMerchant(mers, name) ==
  LET n == IF trim(name) = <<>> THEN <<"U","n","k","n","o","w","n">> ELSE trim(name)
      found == {m \in mers : m.name = n}
      made == [id |-> <<"m">> \o natToString(Cardinality(mers) + 1), name |-> n]
  IN IF found # {}
     THEN [merchant |-> CHOOSE m \in found : TRUE, merchants |-> mers]
     ELSE [merchant |-> made, merchants |-> mers \cup {made}]

UncategorizedName == <<"U","n","c","a","t","e","g","o","r","i","z","e","d">>

getUncategorizedCategory(cats) ==
  LET found == {c \in cats : c.name = UncategorizedName}
      made == [id |-> <<"c">> \o natToString(Cardinality(cats) + 1),
               name |-> UncategorizedName]
  IN IF found # {}
     THEN [category |-> CHOOSE c \in found : TRUE, categories |-> cats]
     ELSE [category |-> made, categories |-> cats \cup {made}]

\* findFirst({ where: { userId, accountId, date, amount, description } })
existsTransaction(txs, userId, accountId, d, amount, description) ==
  \E t \in txs :
    /\ t.userId = userId
    /\ t.accountId = accountId
    /\ t.date = d.ymd
    /\ t.amount = amount
    /\ t.description = description

\* for (const n of normalized) { ... }: st carries the tables, the seen
\* keys and the counters; an Invalid Date makes the query throw
RECURSIVE importLoop(_, _, _, _, _, _)
importLoop(normalized, i, userId, accountId, categoryId, st) ==
  IF i > Len(normalized) THEN st
  ELSE
    LET n == normalized[i]
        key == makeKey(userId, accountId, n.date, n.amount, n.description)
        d == newDate(n.date)
        st1 == [st EXCEPT !.seen = @ \cup {key}]
        m == getOrCreateMerchant(st1.merchants, n.merchant)
        tx == [id |-> <<"t","x">> \o natToString(Cardinality(st1.ledger) + 1),
               userId |-> userId, accountId |-> accountId,
               merchantId |-> m.merchant.id, categoryId |-> categoryId,
               date |-> d.ymd, amount |-> Decimal2(n.amount), type |-> n.type,
               description |-> n.description]
    IN IF key \in st.seen
       THEN importLoop(normalized, i + 1, userId, accountId, categoryId,
                       [st EXCEPT !.skippedDuplicate = @ + 1])
       ELSE IF d.invalid
       THEN [st1 EXCEPT !.threw = TRUE]
       ELSE IF existsTransaction(st1.ledger, userId, accountId, d, n.amount, n.description)
       THEN importLoop(normalized, i + 1, userId, accountId, categoryId,
                       [st1 EXCEPT !.skippedDuplicate = @ + 1])
       ELSE importLoop(normalized, i + 1, userId, accountId, categoryId,
                       [st1 EXCEPT !.ledger = @ \cup {tx},
                                   !.merchants = m.merchants,
                                   !.inserted = @ + 1])

(***************************************************************************)
(* Import requests: one user, an account name, a mapping and a file whose  *)
(* first line is the five headers; the same request may be sent again.     *)
(***************************************************************************)
uAlice == <<"u","1">>
uBob == <<"u","2">>

acctName == <<"C","h","e","q","u","i","n","g">>

rCoffee == <<<<"2","0","2","4","-","0","1","-","0","5">>, <<"-","4",".","5","0">>, <<>>, <<" ","C","o","f","f","e","e"," ">>, <<"C","a","f","e">>>>
rCoffeeUpper == <<<<"2","0","2","4","-","0","1","-","0","5">>, <<"(","4",".","5","0",")">>, <<"e","x","p","e","n","s","e">>, <<"C","O","F","F","E","E">>, <<"C","a","f","e">>>>
rPay == <<<<"2","0","2","4","-","0","1","-","0","6">>, <<"$","1",",","0","0","0",".","0","0">>, <<"I","N","C","O","M","E">>, <<"P","a","y","r","o","l","l">>, <<>>>>
rSubCent == <<<<"2","0","2","4","-","0","1","-","0","6">>, <<"1",".","1","1","7">>, <<"f","o","o">>, <<"F","e","e">>, <<"B","a","n","k">>>>
rGarbage == <<<<"n","/","a">>, <<"x">>, <<"?","?">>, <<"M","e","m","o">>, <<"S","h","o","p">>>>
rShort == <<<<"2","0","2","4","-","0","1","-","0","7">>>>

ImportRowPool == {rCoffee, rCoffeeUpper, rPay, rSubCent, rGarbage, rShort}

ImportTexts ==
  {[broken |-> FALSE, lines |-> <<FullHeaders>> \o rs] :
     rs \in SeqsUpTo(ImportRowPool, MaxImportRows)}

\* the empty file, and a file csv-parse rejects
OtherImportTexts == {[broken |-> FALSE, lines |-> <<>>], BrokenText}

ImportFile(text) ==
  [present |-> TRUE, filename |-> csvName, mime |-> csvMime, size |-> 1024,
   text |-> text]

GoodForm == [user |-> uAlice, accountName |-> acctName, mapping |-> FullMap]

\* forms that differ from GoodForm: no session, no account name, an empty
\* mapping field, and mappings naming a header the file does not have
OtherForms ==
  { [GoodForm EXCEPT !.user = NoId],
    [GoodForm EXCEPT !.accountName = <<>>],
    [GoodForm EXCEPT !.mapping.merchant = <<>>],
    [GoodForm EXCEPT !.mapping.description = hMemo],
    [GoodForm EXCEPT !.mapping.date = hMemo] }

\* what another user already has: an account of the same name and a
\* transaction with the date, amount and description of rCoffee
bobAccount == [id |-> <<"a","c","c","t","1">>, userId |-> uBob, name |-> acctName, type |-> "OTHER"]
bobTx ==
  [id |-> <<"t","x","1">>, userId |-> uBob, accountId |-> <<"a","c","c","t","1">>, merchantId |-> NoId,
   categoryId |-> NoId, date |-> 20240105, amount |-> Cents(450),
   type |-> EXPENSE, description |-> <<"C","o","f","f","e","e">>]

InitImport ==
  /\ NormIdle
  /\ RulesIdle
  /\ UiIdle
  /\ \/ /\ form = GoodForm
        /\ upload \in {ImportFile(t) : t \in ImportTexts \cup OtherImportTexts} \cup {NoUpload}
     \/ /\ form \in OtherForms
        /\ upload \in {ImportFile([broken |-> FALSE, lines |-> <<FullHeaders, r>>]) :
                         r \in {rCoffee, rPay}}
                       \cup {ImportFile(BrokenText)}
  /\ parserCalls = 0
  /\ parsedCsv = NoParse
  /\ \/ accounts = {} /\ ledger = {}
     \/ accounts = {bobAccount} /\ ledger = {bobTx}
  /\ merchants = {}
  /\ categories = {}
  /\ reply = NoResponse
  /\ steps = 0

ImportReply(status) == [endpoint |-> "import", status |-> status]

\* the handler of POST /api/import/transactions for the form f and the
\* file: what it answers and what it writes
ImportHandler(f, file) ==
  LET parsed == parseCsv(file.text)
      rows == parsed.records
      hdrs == rows[1]
      normalized == [k \in 1..(Len(rows) - 1) |->
                       normalizeRowImport(hdrs, rows[k + 1], f.mapping)]
      acct == getOrCreateAccount(accounts, f.user, f.accountName)
      cat == getUncategorizedCategory(categories)
      done == importLoop(normalized, 1, f.user, acct.account.id, cat.category.id,
                         [ledger |-> ledger, merchants |-> merchants, seen |-> {},
                          inserted |-> 0, skippedDuplicate |-> 0, threw |-> FALSE])
  IN IF f.user = NoId
     THEN /\ reply' = ImportReply(401)
          /\ UNCHANGED <<accounts, merchants, categories, ledger>>
     ELSE IF ~file.present
     THEN /\ reply' = ImportReply(400) @@ [error |-> "Missing file"]
          /\ UNCHANGED <<accounts, merchants, categories, ledger>>
     ELSE IF ~ImportFormSchemaOk(f)
     THEN /\ reply' = ImportReply(400) @@ [error |-> "Invalid mapping/accountName"]
          /\ UNCHANGED <<accounts, merchants, categories, ledger>>
     ELSE IF parsed.threw
     THEN /\ reply' = ImportReply(500)
          /\ UNCHANGED <<accounts, merchants, categories, ledger>>
     ELSE IF ~hasDataRows(rows)
     THEN /\ reply' = ImportReply(400) @@ [error |-> "CSV has no data rows"]
          /\ UNCHANGED <<accounts, merchants, categories, ledger>>
     ELSE /\ accounts' = acct.accounts
          /\ categories' = cat.categories
          /\ merchants' = done.merchants
          /\ ledger' = done.ledger
          /\ reply' =
               IF done.threw THEN ImportReply(500)
               ELSE ImportReply(200) @@
                      [ok |-> TRUE, processed |-> Len(normalized),
                       inserted |-> done.inserted,
                       skippedDuplicate |-> done.skippedDuplicate,
                       account |-> acct.account.name]

\* POST /api/import/transactions
ImportPOST ==
  /\ steps < MaxImports
  /\ steps' = steps + 1
  /\ UNCHANGED <<upload, form, parserCalls, parsedCsv>>
  /\ UNCHANGED <<normVars, ruleVars, uiVars>>
  /\ ImportHandler(form, upload)

NextImport == ImportPOST

SpecImport == InitImport /\ [][NextImport]_vars

ImportAnswered == reply.endpoint = "import"

\* what identifies a transaction for deduplication
DedupTuple(t) == <<t.userId, t.accountId, t.date, t.amount, t.description>>

\* C15: the import inserts a row only if its (user, account, date, amount,
\* description) tuple equals neither that of an earlier row of the batch nor
\* that of a persisted transaction, so no two persisted transactions share
\* the tuple; every row not inserted is counted in skippedDuplicate; and
\* importing the same file a second time into the same account inserts
\* nothing.
C15_NoDuplicateImported ==
  /\ \A t1, t2 \in ledger : DedupTuple(t1) = DedupTuple(t2) => t1 = t2
  /\ (ImportAnswered /\ reply.status = 200) =>
       reply.inserted + reply.skippedDuplicate = reply.processed
  /\ (ImportAnswered /\ reply.status = 200 /\ steps >= 2) => reply.inserted = 0

\* the request passes the session, file and form checks
ImportRequestOk == form.user # NoId /\ upload.present /\ ImportFormSchemaOk(form)

\* C16: for every parseable CSV with at least one data row and a well-formed
\* mapping, the import answers success with processed = number of data
\* rows, whatever the cells hold (non-numeric amount, unrecognised type,
\* garbage or empty date text).
C16_ImportAlwaysCompletes ==
  (ImportAnswered /\ ImportRequestOk /\ ~upload.text.broken
     /\ Len(parse(upload.text).records) >= 2) =>
    /\ reply.status = 200
    /\ reply.processed = Len(parse(upload.text).records) - 1

\* the uploaded CSV cannot be parsed, or has no data rows
NoDataRows ==
  upload.present /\ (upload.text.broken \/ Len(parse(upload.text).records) < 2)

\* C17: if the uploaded CSV cannot be parsed, or has no data rows, the
\* import request fails as a whole and creates no account, category,
\* merchant or transaction.
C17_NoPartialImport ==
  /\ []((ImportAnswered /\ NoDataRows) => reply.status \in {400, 401, 500})
  /\ [][NoDataRows =>
          /\ accounts' = accounts
          /\ categories' = categories
          /\ merchants' = merchants
          /\ ledger' = ledger]_vars

\* a file with the header line alone, refused with nothing created
C17_Witness ==
  /\ ImportAnswered
  /\ form = GoodForm
  /\ upload.present
  /\ ~upload.text.broken
  /\ Len(upload.text.lines) = 1
  /\ reply.status = 400
  /\ accounts = {} /\ categories = {} /\ merchants = {} /\ ledger = {}

\* the headers of the uploaded CSV
CsvHeaders ==
  LET rows == parse(upload.text).records
  IN {rows[1][j] : j \in DOMAIN rows[1]}

\* C20: every mapping the import handler accepts and applies has each of
\* its five fields equal to a header present in the uploaded CSV; a mapping
\* naming an absent header is rejected rather than applied.
C20_MappingNamesPresentHeaders ==
  (ImportAnswered /\ reply.status = 200) =>
    \A f \in REQUIRED_FIELDS : form.mapping[f] \in CsvHeaders

(***************************************************************************)
(* Transactions by id: src/app/api/transactions/[id]/route.ts, with the    *)
(* session callbacks of src/lib/auth.ts.                                   *)
(***************************************************************************)
MaxTxRequests == 2

\* session.user.id as the session callback leaves it.  First variant of
\* src/lib/auth.ts: the id is copied from token.id, which the jwt callback
\* never sets (it sets token.user), so it stays undefined.  Second variant:
\* the id is token.sub.  src/unnamed/part_015 sets token.id in the jwt
\* callback and copies it.
AuthVariants == {"tokenId", "tokenSub", "tokenIdSet"}

sessionUserId(auth, user) == IF auth = "tokenId" THEN Undefined ELSE user

\* findFirst({ where: { id, userId } }): a where field that is undefined
\* is left out of the filter
findFirstOwned(rows, id, userId) ==
  {r \in rows : r.id = id /\ (userId = Undefined \/ r.userId = userId)}

Has(fields, k) == k \in DOMAIN fields
Truthy(fields, k) == Has(fields, k) /\ fields[k] # <<>>

\* the data object of prisma.transaction.update
updateData(t, data) ==
  [t EXCEPT
     !.accountId = IF Truthy(data, "accountId") THEN data.accountId ELSE @,
     !.merchantId = IF Has(data, "merchantId") THEN data.merchantId ELSE @,
     !.categoryId = IF Has(data, "categoryId") THEN data.categoryId ELSE @,
     !.date = IF Truthy(data, "date") THEN newDate(data.date).ymd ELSE @,
     !.amount = IF Has(data, "amount") THEN Decimal2(data.amount) ELSE @,
     !.type = IF Truthy(data, "type") THEN data.type ELSE @,
     !.description = IF Truthy(data, "description") THEN data.description ELSE @]

aliceAccount == [id |-> <<"a","c","c","t","2">>, userId |-> uAlice, name |-> acctName, type |-> "OTHER"]
aliceTx ==
  [id |-> <<"t","x","2">>, userId |-> uAlice, accountId |-> <<"a","c","c","t","2">>, merchantId |-> NoId,
   categoryId |-> NoId, date |-> 20251013, amount |-> Cents(5000),
   type |-> EXPENSE, description |-> <<"O","r","i","g","i","n","a","l"," ","T","r","a","n","s","a","c","t","i","o","n">>]

TxIds == {<<"t","x","1">>, <<"t","x","2">>, <<"t","x","9">>}

\* request bodies: valid is what UpdateTransactionSchema.safeParse says
TxBodies ==
  { [valid |-> TRUE, data |-> [description |-> <<"A","t","t","e","m","p","t","e","d"," ","U","p","d","a","t","e">>]],
    [valid |-> TRUE, data |-> [description |-> <<"U","p","d","a","t","e","d">>, amount |-> Cents(7500)]],
    [valid |-> TRUE, data |-> [accountId |-> <<"a","c","c","t","1">>]],
    [valid |-> TRUE, data |-> [accountId |-> <<"a","c","c","t","2">>, date |-> <<"2","0","2","5","-","1","0","-","1","4">>]],
    [valid |-> TRUE, data |-> [date |-> <<"n","/","a">>]],
    [valid |-> FALSE, data |-> [amount |-> <<"a","b","c">>]] }

InitTx ==
  /\ NormIdle
  /\ RulesIdle
  /\ UiIdle
  /\ upload = NoUpload
  /\ form = NoForm
  /\ parserCalls = 0
  /\ parsedCsv = NoParse
  /\ accounts = {bobAccount, aliceAccount}
  /\ merchants = {}
  /\ categories = {}
  /\ ledger = {bobTx, aliceTx}
  /\ reply = NoResponse
  /\ steps = 0

TxReply(method, status) == [endpoint |-> "tx", method |-> method, status |-> status]

\* the request and the table it met
TxRequest(method, user, auth, id, body) ==
  [method |-> method, user |-> user, auth |-> auth, id |-> id, body |-> body,
   before |-> ledger]

\* PUT /api/transactions/[id]
TransactionPUT(user, auth, id, body) ==
  /\ steps < MaxTxRequests
  /\ steps' = steps + 1
  /\ form' = TxRequest("PUT", user, auth, id, body)
  /\ UNCHANGED <<upload, parserCalls, parsedCsv, accounts, merchants, categories>>
  /\ UNCHANGED <<normVars, ruleVars, uiVars>>
  /\ LET userId == sessionUserId(auth, user)
         existing == findFirstOwned(ledger, id, userId)
         data == body.data
         account == findFirstOwned(accounts, data.accountId, userId)
         target == CHOOSE t \in ledger : t.id = id
     IN IF user = NoId
        THEN reply' = TxReply("PUT", 401) /\ UNCHANGED ledger
        ELSE IF ~body.valid
        THEN reply' = TxReply("PUT", 400) /\ UNCHANGED ledger
        ELSE IF existing = {}
        THEN reply' = TxReply("PUT", 404) /\ UNCHANGED ledger
        ELSE IF Truthy(data, "accountId") /\ account = {}
        THEN reply' = TxReply("PUT", 404) /\ UNCHANGED ledger
        ELSE IF Truthy(data, "date") /\ newDate(data.date).invalid
        THEN reply' = TxReply("PUT", 500) /\ UNCHANGED ledger
        ELSE /\ ledger' = (ledger \ {target}) \cup {updateData(target, data)}
             /\ reply' = TxReply("PUT", 200)

\* DELETE /api/transactions/[id]
TransactionDELETE(user, auth, id) ==
  /\ steps < MaxTxRequests
  /\ steps' = steps + 1
  /\ form' = TxRequest("DELETE", user, auth, id, [valid |-> TRUE, data |-> <<>>])
  /\ UNCHANGED <<upload, parserCalls, parsedCsv, accounts, merchants, categories>>
  /\ UNCHANGED <<normVars, ruleVars, uiVars>>
  /\ LET userId == sessionUserId(auth, user)
         existing == findFirstOwned(ledger, id, userId)
     IN IF user = NoId
        THEN reply' = TxReply("DELETE", 401) /\ UNCHANGED ledger
        ELSE IF existing = {}
        THEN reply' = TxReply("DELETE", 404) /\ UNCHANGED ledger
        ELSE /\ ledger' = {t \in ledger : t.id # id}
             /\ reply' = TxReply("DELETE", 200)

NextTx ==
  \/ \E user \in {uAlice, uBob, NoId}, auth \in AuthVariants, id \in TxIds,
        body \in TxBodies : TransactionPUT(user, auth, id, body)
  \/ \E user \in {uAlice, uBob, NoId}, auth \in AuthVariants, id \in TxIds :
        TransactionDELETE(user, auth, id)

SpecTx == InitTx /\ [][NextTx]_vars

TxAnswered == reply.endpoint = "tx"

\* the request came from a signed-in user who does not own the transaction
ByNonOwner ==
  /\ form.user # NoId
  /\ \E t \in form.before : t.id = form.id /\ t.userId # form.user

\* C19: a PUT or DELETE on /api/transactions/[id] by a user who does not
\* own that transaction answers 404 (400 when the body of the PUT is itself
\* invalid, which is looked at first) and leaves the transaction present and
\* unchanged; only the owner's request modifies or removes a transaction.
C19_OnlyOwnerModifies ==
  TxAnswered =>
    /\ ByNonOwner =>
         /\ reply.status = IF form.body.valid THEN 404 ELSE 400
         /\ ledger = form.before
    /\ \A t \in form.before : t \notin ledger => form.user = t.userId

(***************************************************************************)
(* Bank keys: deriveBankKey of src/lib/column-mapper.ts (the same text in  *)
(* both variants of the file).                                             *)
(***************************************************************************)
MaxNameLen == 5

\* [a-z0-9] under the i flag: an ASCII letter or digit
isAlnum(c) ==
  \/ IsDigit(c)
  \/ \E i \in DOMAIN LowerChars : LowerChars[i] = c
  \/ \E i \in DOMAIN UpperChars : UpperChars[i] = c

\* where /\.[^.]+$/ matches: at the last ".", when at least one character
\* follows it; 0 when there is no match
extensionStart(s) ==
  LET dots == {i \in DOMAIN s : s[i] = "."}
      last == CHOOSE i \in dots : \A j \in dots : j <= i
  IN IF dots = {} THEN 0
     ELSE IF last = Len(s) THEN 0
     ELSE last

\* filename.replace(/\.[^.]+$/, "")
stripExtension(s) ==
  IF extensionStart(s) = 0 THEN s ELSE SubSeq(s, 1, extensionStart(s) - 1)

\* A plausible slip: the pattern without "+", one "-" for each character.
RECURSIVE replaceRuns_EachChar(_)
replaceRuns_EachChar(s) ==
  IF s = <<>> THEN <<>>
  ELSE (IF isAlnum(Head(s)) THEN <<Head(s)>> ELSE <<"-">>)
         \o replaceRuns_EachChar(Tail(s))

\* base.replace(/[^a-z0-9]+/gi, "-"): one "-" for each maximal run
RECURSIVE replaceRuns(_)
replaceRuns(s) ==
  IF s = <<>> THEN <<>>
  ELSE IF isAlnum(Head(s)) THEN <<Head(s)>> \o replaceRuns(Tail(s))
  ELSE IF Len(s) > 1 /\ ~isAlnum(s[2]) THEN replaceRuns(Tail(s))
  ELSE <<"-">> \o replaceRuns(Tail(s))

deriveBankKey(filename) ==
  IF filename = <<>> THEN <<"u","n","k","n","o","w","n">>
  ELSE toLowerCase(replaceRuns(stripExtension(filename)))

\* file names character by character
NameAlphabet == {"A", "b", "1", ".", "_"}
BankKeyNames == SeqsUpTo(NameAlphabet, MaxNameLen)

NoKeyCall == [mounted |-> FALSE, called |-> FALSE, filename |-> <<>>, key |-> <<>>]

InitBankKey ==
  /\ NormIdle
  /\ RulesIdle
  /\ IoIdle
  /\ page \in {[NoKeyCall EXCEPT !.filename = n] : n \in BankKeyNames}
  /\ dialog = NoDialog
  /\ procs = <<>>

DeriveBankKeyCall ==
  /\ ~page.called
  /\ page' = [page EXCEPT !.called = TRUE, !.key = deriveBankKey(page.filename)]
  /\ UNCHANGED <<dialog, procs>>
  /\ UNCHANGED <<normVars, ruleVars, ioVars>>

NextBankKey == DeriveBankKeyCall

SpecBankKey == InitBankKey /\ [][NextBankKey]_vars

\* the name without its final extension, and that extension with its "."
BaseOf(name) ==
  IF \E i \in DOMAIN name :
       /\ name[i] = "."
       /\ i < Len(name)
       /\ \A j \in (i + 1)..Len(name) : name[j] # "."
  THEN SubSeq(name, 1, (CHOOSE i \in DOMAIN name :
                          /\ name[i] = "."
                          /\ i < Len(name)
                          /\ \A j \in (i + 1)..Len(name) : name[j] # ".") - 1)
  ELSE name
ExtOf(name) == SubSeq(name, Len(BaseOf(name)) + 1, Len(name))

\* positions where a maximal run of characters that are no letter or digit
\* begins
RunStarts(s) ==
  {i \in DOMAIN s : ~isAlnum(s[i]) /\ (i = 1 \/ isAlnum(s[i - 1]))}

\* s with every character that is no letter or digit replaced by c, and
\* with each of them written twice
SubstRuns(s, c) == [i \in DOMAIN s |-> IF isAlnum(s[i]) THEN s[i] ELSE c]
RECURSIVE DoubleRuns(_)
DoubleRuns(s) ==
  IF s = <<>> THEN <<>>
  ELSE (IF isAlnum(Head(s)) THEN <<Head(s)>> ELSE <<Head(s), Head(s)>>)
         \o DoubleRuns(Tail(s))

\* names that differ from name only in letter case, in the extension, or in
\* the characters inside the runs of the base
SameKeyNames(name) ==
  { toUpperCase(name), toLowerCase(name),
    BaseOf(name) \o <<".","t","x","t">>, BaseOf(name) \o <<".","C","S","V">>,
    SubstRuns(BaseOf(name), " ") \o ExtOf(name),
    SubstRuns(BaseOf(name), "#") \o ExtOf(name),
    DoubleRuns(BaseOf(name)) \o ExtOf(name) }

KeyChars ==
  {LowerChars[i] : i \in DOMAIN LowerChars} \cup {Digits[i] : i \in DOMAIN Digits}
    \cup {"-"}

\* C22: deriveBankKey drops the final extension of the file name, replaces
\* every maximal run of characters that are no letter or digit by one "-"
\* and lower-cases: the key has only a-z, 0-9 and "-", never two "-" side
\* by side, its letters and digits are those of the base in lower case, it
\* has one "-" for each run, and names that differ only in letter case,
\* extension or the characters inside the runs have the same key.
C22_BankKeyDerivation ==
  (page.called /\ page.filename # <<>>) =>
    LET name == page.filename
        key == page.key
    IN /\ \A i \in DOMAIN key : key[i] \in KeyChars
       /\ \A i \in 1..(Len(key) - 1) : ~(key[i] = "-" /\ key[i + 1] = "-")
       /\ removeChars(key, {"-"}) = toLowerCase(SelectSeq(BaseOf(name), isAlnum))
       /\ Cardinality({i \in DOMAIN key : key[i] = "-"})
            = Cardinality(RunStarts(BaseOf(name)))
       /\ \A other \in SameKeyNames(name) : deriveBankKey(other) = key

\* a name with a capital, a run of two characters and an extension
C22_Witness ==
  /\ page.called
  /\ page.filename = <<"A","_",".","1","b">>
  /\ page.key = <<"a","-">>

(***************************************************************************)
(* The import page: src/app/import/page.tsx.  localStorage is a function   *)
(* from item keys to item texts; a JSON text is the list of its members.   *)
(***************************************************************************)
MaxUploads == 2

MappingKeys == <<"bankKey", "date", "amount", "type", "description", "merchant">>

\* JSON.stringify of a mapping: its members in insertion order
JSONstringify(m) == [i \in DOMAIN MappingKeys |-> <<MappingKeys[i], m[MappingKeys[i]]>>]

\* JSON.parse of an object text: one property per name, the last member of
\* a name wins
JSONparse(raw) ==
  [k \in {raw[i][1] : i \in DOMAIN raw} |->
     raw[CHOOSE i \in DOMAIN raw :
           /\ raw[i][1] = k
           /\ \A j \in DOMAIN raw : raw[j][1] = k => j <= i][2]]

\* MappingSchema.safeParse: the six members are there, bankKey has at
\* least one character; other members are dropped from the data
MappingSchemaSafeParse(obj) ==
  LET ok == /\ \A i \in DOMAIN MappingKeys : MappingKeys[i] \in DOMAIN obj
            /\ Len(obj.bankKey) >= 1
  IN IF ok
     THEN [success |-> TRUE,
           data |-> [bankKey |-> obj.bankKey, date |-> obj.date, amount |-> obj.amount,
                     type |-> obj.type, description |-> obj.description,
                     merchant |-> obj.merchant]]
     ELSE [success |-> FALSE]

\* localStorage.getItem / setItem under `preset:${key}`
\* (getItem answers null for a key that is not there)
NoItem == [found |-> FALSE]
getItem(store, key) ==
  IF key \in DOMAIN store THEN [found |-> TRUE, text |-> store[key]] ELSE NoItem
setItem(store, key, raw) ==
  [k \in DOMAIN store \cup {key} |-> IF k = key THEN raw ELSE store[k]]

\* { bankKey, ...guessMapping(data.headers) }, for either variant of
\* guessMapping
withBankKey(bankKey, g) ==
  [bankKey |-> bankKey, date |-> g.date, amount |-> g.amount, type |-> g.type,
   description |-> g.description, merchant |-> g.merchant]

GuessVariants == {"guess", "guess2"}
guessOf(v, hs) == IF v = "guess" THEN guessMapping(hs) ELSE guessMapping2(hs)

NoFile == [present |-> FALSE]
NoMapping == [set |-> FALSE]
NoResult == [set |-> FALSE]
NoSubmit == [sent |-> FALSE]

\* the files a user picks: two names with the key "bmo", one with the key
\* "td-bank", one whose key is empty
PageFileNames == {<<"B","M","O",".","c","s","v">>, <<"b","m","o",".","T","X","T">>, <<"T","D"," ","B","a","n","k",".","c","s","v">>, <<".","c","s","v">>}

\* what /api/upload-csv answers: headers, no header row, an error
PageResponses ==
  { [headers |-> <<hDate, hAmt>>, rowCount |-> 2],
    [headers |-> <<hMemo, hType>>, rowCount |-> 1],
    [headers |-> <<>>, rowCount |-> 0],
    [error |-> "Invalid input"] }

\* a stored item that is no mapping (it lacks a member)
invalidPreset == <<<<"bankKey", <<"b","m","o">>>>, <<"date", hDate>>>>

InitPage ==
  /\ NormIdle
  /\ RulesIdle
  /\ IoIdle
  /\ page \in
       { [mounted |-> TRUE, file |-> NoFile, bankKey |-> deriveBankKey(<<"u","n","k","n","o","w","n",".","c","s","v">>),
          res |-> NoResult, loading |-> FALSE, submit |-> NoSubmit,
          mapping |-> NoMapping, presets |-> st, alert |-> "none",
          uploads |-> 0] :
         st \in {<<>>, [k \in {<<"b","m","o">>} |-> invalidPreset]} }
  /\ dialog = NoDialog
  /\ procs = <<>>

PageStep ==
  /\ UNCHANGED <<dialog, procs>>
  /\ UNCHANGED <<normVars, ruleVars, ioVars>>

\* onChange of the file input: setFile; bankKey is recomputed from the name
SetFile(name) ==
  /\ page.mounted
  /\ page' = [page EXCEPT
                !.file = [present |-> TRUE, name |-> name],
                !.bankKey = deriveBankKey(IF name = <<>> THEN <<"u","n","k","n","o","w","n",".","c","s","v">> ELSE name),
                !.alert = "none"]
  /\ PageStep

\* onSubmit up to the await of fetch: the request carries the bank key of
\* the render it was sent from
OnSubmit ==
  /\ page.mounted
  /\ page.file.present /\ ~page.loading
  /\ page.uploads < MaxUploads
  /\ page' = [page EXCEPT
                !.loading = TRUE,
                !.res = NoResult,
                !.submit = [sent |-> TRUE, bankKey |-> page.bankKey],
                !.alert = "none"]
  /\ PageStep

\* A plausible slip: the stored preset is not looked at.
submitMapping_AlwaysGuess(store, bankKey, data, v) ==
  withBankKey(bankKey, guessOf(v, data.headers))

\* the mapping onSubmit sets for the answer data
submitMapping(store, bankKey, data, v) ==
  LET presetRaw == getItem(store, bankKey)
      candidate == MappingSchemaSafeParse(JSONparse(presetRaw.text))
      guessed == withBankKey(bankKey, guessOf(v, data.headers))
  IN IF presetRaw.found
     THEN IF candidate.success THEN candidate.data ELSE guessed
     ELSE guessed

\* onSubmit after the await: setRes, then the preset or the guess
OnResponse(data, v) ==
  /\ page.mounted
  /\ page.loading
  /\ page' = [page EXCEPT
                !.loading = FALSE,
                !.res = [set |-> TRUE, data |-> data],
                !.submit = [@ EXCEPT !.sent = FALSE],
                !.uploads = @ + 1,
                !.mapping =
                  IF "headers" \in DOMAIN data /\ Len(data.headers) > 0
                  THEN [set |-> TRUE,
                        value |-> submitMapping(page.presets, page.submit.bankKey, data, v)]
                  ELSE @]
  /\ PageStep

\* updateField, from a select of the mapper (its options are the headers)
UpdateField(field, value) ==
  /\ page.mounted
  /\ page.mapping.set
  /\ page.res.set /\ "headers" \in DOMAIN page.res.data
  /\ \E i \in DOMAIN page.res.data.headers : page.res.data.headers[i] = value
  /\ page' = [page EXCEPT !.mapping.value[field] = value, !.alert = "none"]
  /\ PageStep

\* the mapper with its buttons is rendered
MapperShown ==
  /\ page.mounted
  /\ page.res.set /\ "error" \notin DOMAIN page.res.data
  /\ page.mapping.set

SavePreset ==
  /\ MapperShown
  /\ LET safe == MappingSchemaSafeParse(page.mapping.value)
     IN IF ~safe.success
        THEN page' = [page EXCEPT !.alert = "Invalid mapping"]
        ELSE page' = [page EXCEPT
                        !.presets = setItem(@, page.mapping.value.bankKey,
                                            JSONstringify(page.mapping.value)),
                        !.alert = "Preset saved"]
  /\ PageStep

LoadPreset ==
  /\ MapperShown
  /\ LET raw == getItem(page.presets, page.bankKey)
         parsed == MappingSchemaSafeParse(JSONparse(raw.text))
     IN IF ~raw.found
        THEN page' = [page EXCEPT !.alert = "No preset for this key"]
        ELSE IF ~parsed.success
        THEN page' = [page EXCEPT !.alert = "Preset is invalid"]
        ELSE page' = [page EXCEPT !.mapping = [set |-> TRUE, value |-> parsed.data],
                                  !.alert = "none"]
  /\ PageStep

\* the selects the user changes
EditedFields == {"merchant"}

NextPage ==
  \/ \E name \in PageFileNames : SetFile(name)
  \/ OnSubmit
  \/ \E data \in PageResponses, v \in GuessVariants : OnResponse(data, v)
  \/ \E field \in EditedFields, value \in {hDate, hAmt, hMemo, hType} :
       UpdateField(field, value)
  \/ SavePreset
  \/ LoadPreset

SpecPage == InitPage /\ [][NextPage]_vars

\* an upload has just been answered with a header row
UploadAnsweredWithHeaders ==
  /\ page.loading /\ ~page'.loading
  /\ "headers" \in DOMAIN page'.res.data
  /\ Len(page'.res.data.headers) > 0

\* the item stored under key k is a mapping
ValidPresetAt(store, k) ==
  /\ k \in DOMAIN store
  /\ MappingSchemaSafeParse(JSONparse(store[k])).success

\* the mapping the item stored under key k holds
PresetAt(store, k) == MappingSchemaSafeParse(JSONparse(store[k])).data

MaxDialogEvents == 4

FailedToDelete == "Failed to delete transaction"

\* the texts the component renders (lines 48-82): title, description and
\* the two button labels, when the dialog is open
Rendered(d) ==
  IF d.open
  THEN {"Delete Transaction",
        "Are you sure you want to delete this transaction? This action cannot be undone.",
        "Cancel", "Delete"}
  ELSE {}

\* deleteMutation.isPending
isPending(d) == d.status = "pending"

\* disabled={deleteMutation.isPending} on Cancel
CancelDisabled(d) == isPending(d)

\* A plausible slip: the Delete button is never disabled.
DeleteDisabled_Never(d) == FALSE

\* disabled={deleteMutation.isPending} on Delete
DeleteDisabled(d) == isPending(d)

DialogIds == {<<"t","x","1">>, <<"t","x","2">>}

InitDialog ==
  /\ NormIdle
  /\ RulesIdle
  /\ IoIdle
  /\ page = NoPage
  /\ dialog \in
       { [mounted |-> TRUE, open |-> TRUE, transactionId |-> t, status |-> "idle",
          error |-> "none", inFlight |-> 0, fetches |-> 0, closes |-> 0,
          invalidations |-> 0, events |-> 0, last |-> "none"] :
         t \in {[present |-> FALSE]} \cup {[present |-> TRUE, id |-> i] : i \in DialogIds} }
  /\ procs = <<>>

DialogStep ==
  /\ UNCHANGED <<page, procs>>
  /\ UNCHANGED <<normVars, ruleVars, ioVars>>

\* onClose(): the parent is told; it closes the dialog or leaves it open
onClose(d, parentCloses) ==
  [d EXCEPT !.closes = @ + 1, !.open = IF parentCloses THEN FALSE ELSE @]

\* the parent opens the dialog for a transaction
OpenDialog(t) ==
  /\ dialog.mounted /\ ~dialog.open
  /\ dialog.events < MaxDialogEvents
  /\ dialog' = [dialog EXCEPT !.open = TRUE, !.transactionId = t,
                              !.events = @ + 1, !.last = "open"]
  /\ DialogStep

\* a click on Cancel: onClick={onClose}
ClickCancel(parentCloses) ==
  /\ dialog.mounted /\ dialog.open
  /\ ~CancelDisabled(dialog)
  /\ dialog.events < MaxDialogEvents
  /\ dialog' = [onClose(dialog, parentCloses) EXCEPT !.events = @ + 1, !.last = "cancel"]
  /\ DialogStep

\* Escape or a click outside: onOpenChange={onClose}
DismissDialog(parentCloses) ==
  /\ dialog.mounted /\ dialog.open
  /\ dialog.events < MaxDialogEvents
  /\ dialog' = [onClose(dialog, parentCloses) EXCEPT !.events = @ + 1, !.last = "dismiss"]
  /\ DialogStep

\* a click on Delete: handleDelete, deleteMutation.mutate(transactionId)
ClickDelete ==
  /\ dialog.mounted /\ dialog.open
  /\ ~DeleteDisabled(dialog)
  /\ dialog.events < MaxDialogEvents
  /\ dialog' =
       IF dialog.transactionId.present
       THEN [dialog EXCEPT !.status = "pending", !.error = "none",
                           !.inFlight = @ + 1, !.fetches = @ + 1,
                           !.events = @ + 1, !.last = "delete"]
       ELSE [dialog EXCEPT !.events = @ + 1, !.last = "delete"]
  /\ DialogStep

\* the DELETE request is answered: res.ok, or not
SettleDelete(ok, parentCloses) ==
  /\ dialog.mounted
  /\ dialog.inFlight > 0
  /\ dialog' =
       IF ok
       THEN [onClose([dialog EXCEPT !.invalidations = @ + 1], parentCloses) EXCEPT
               !.status = "success", !.inFlight = @ - 1, !.last = "ok"]
       ELSE [dialog EXCEPT !.status = "error", !.error = FailedToDelete,
                           !.inFlight = @ - 1, !.last = "fail"]
  /\ DialogStep

NextDialog ==
  \/ \E t \in {[present |-> TRUE, id |-> i] : i \in DialogIds} : OpenDialog(t)
  \/ \E parentCloses \in BOOLEAN : ClickCancel(parentCloses)
  \/ \E parentCloses \in BOOLEAN : DismissDialog(parentCloses)
  \/ ClickDelete
  \/ \E ok \in BOOLEAN, parentCloses \in BOOLEAN : SettleDelete(ok, parentCloses)

SpecDialog == InitDialog /\ [][NextDialog]_vars

\* C23: after Delete is clicked, the answer of the DELETE request calls
\* onClose if and only if the request succeeded; when the request has
\* failed, the error "Failed to delete transaction" is shown; a click on
\* Cancel calls onClose and sends no request.
C23_DeleteOutcome ==
  /\ [][(dialog.inFlight > 0 /\ dialog'.inFlight < dialog.inFlight) =>
          (dialog'.closes > dialog.closes <=> dialog'.status = "success")]_vars
  /\ []((dialog.mounted /\ dialog.last = "fail" /\ dialog.open) =>
          FailedToDelete \in Rendered(dialog))
  /\ [][(dialog'.mounted /\ dialog'.last = "cancel"
           /\ dialog'.events > dialog.events) =>
          /\ dialog'.closes = dialog.closes + 1
          /\ dialog'.fetches = dialog.fetches]_vars

\* C24: while a DELETE request of the dialog is in flight, Cancel and
\* Delete are disabled; when none is in flight they are enabled; and the
\* dialog never has two DELETE requests in flight.
C24_OneDeleteInFlight ==
  dialog.mounted =>
    /\ dialog.inFlight > 0 <=> CancelDisabled(dialog)
    /\ dialog.inFlight > 0 <=> DeleteDisabled(dialog)
    /\ dialog.inFlight <= 1

\* a second DELETE in flight after the first one has failed and the buttons
\* were enabled again
C24_Witness ==
  /\ dialog.mounted
  /\ dialog.fetches = 2
  /\ dialog.inFlight = 1
  /\ isPending(dialog)
  /\ dialog.last = "delete"

(***************************************************************************)
(* Cell resolution of normalizeRow.                                        *)
(***************************************************************************)
\* t is cell without the white space at its two ends
IsTrimOf(t, cell) ==
  \E a \in 0..Len(cell) : \E b \in a..Len(cell) :
    /\ t = SubSeq(cell, a + 1, b)
    /\ \A i \in 1..a : IsWhiteSpace(cell[i])
    /\ \A i \in (b + 1)..Len(cell) : IsWhiteSpace(cell[i])
    /\ t # <<>> => (~IsWhiteSpace(t[1]) /\ ~IsWhiteSpace(t[Len(t)]))

\* v is what the mapped name resolves to: nothing when no header equals the
\* name or the row ends before the first such header, otherwise the cell
\* under the first such header, trimmed
ResolvesTo(v, name) ==
  LET hits == {i \in DOMAIN headers : headers[i] = name}
      first == CHOOSE i \in hits : \A j \in hits : i <= j
  IN IF hits = {} THEN v = <<>>
     ELSE IF first > Len(row) THEN v = <<>>
     ELSE IsTrimOf(v, row[first])

\* C25: normalizeRow (each of the three copies) resolves a mapped field by
\* exact equality of the mapped name with a header, taking the first of
\* equal headers; a name equal to no header, and a column beyond the end
\* of a short row, give the empty text; date, description and merchant are
\* returned as the trimmed cell, unchanged otherwise.
C25_CellResolution ==
  (Returned /\ ~out.threw) =>
    /\ \A f \in {"date", "description", "merchant"} : ResolvesTo(out[f], map[f])
    /\ \A f \in {"amount", "type"} : ResolvesTo(get(headers, row, map[f]), map[f])

\* two equal headers over cells that differ, and a mapped name that is no
\* header: the first cell, trimmed, and the empty text
C25_Witness ==
  /\ Returned /\ ~out.threw
  /\ headers = <<hAmt, hAmt>>
  /\ row = <<<<" ","(","1",")"," ">>, <<"i","n","c","o","m","e">>>>
  /\ map.date = hAmt /\ map.merchant = hMemo
  /\ out.date = <<"(","1",")">>
  /\ out.description = <<"(","1",")">>
  /\ out.merchant = <<>>

(***************************************************************************)
(* Import requests that overlap: the handler of                            *)
(* src/app/api/import/transactions/route.ts, one step for each awaited     *)
(* query.  Each request keeps its own position and locals in procs; the    *)
(* tables are shared.  Merchant.name is unique (src/unnamed/part_003:115), *)
(* so creating a merchant whose name exists throws; Account and            *)
(* Transaction have no such index.                                         *)
(***************************************************************************)
ImportProcs == {1, 2}

NoRecord == [id |-> NoId]

FreshProc ==
  [pc |-> "start", acctPc |-> "find", catPc |-> "find", normalized |-> <<>>,
   k |-> 1, account |-> NoRecord, category |-> NoRecord, merchant |-> NoRecord,
   seen |-> {}, inserted |-> 0, skippedDuplicate |-> 0, status |-> 0]

\* the files sent twice: the header and up to MaxImportRows rows
ConcurrentTexts ==
  {[broken |-> FALSE, lines |-> <<FullHeaders>> \o rs] :
     rs \in SeqsUpTo({rCoffee, rPay}, MaxImportRows)}

InitConcurrentImport ==
  /\ NormIdle
  /\ RulesIdle
  /\ upload \in {ImportFile(t) : t \in ConcurrentTexts}
  /\ form = GoodForm
  /\ parserCalls = 0
  /\ parsedCsv = NoParse
  /\ accounts \in {{}, {aliceAccount}}
  /\ merchants = {}
  /\ categories = {}
  /\ ledger = {}
  /\ reply = NoResponse
  /\ steps = 0
  /\ page = NoPage
  /\ dialog = NoDialog
  /\ procs = [i \in ImportProcs |-> FreshProc]

ProcStep ==
  /\ UNCHANGED <<upload, form, parserCalls, parsedCsv, reply, steps>>
  /\ UNCHANGED <<page, dialog>>
  /\ UNCHANGED <<normVars, ruleVars>>

Finished(p, status) == [p EXCEPT !.pc = "done", !.status = status]

\* the top of the for loop, up to the next awaited query: rows whose key
\* was seen are skipped, the end of the list answers 200
RECURSIVE loopHead(_)
loopHead(p) ==
  IF p.k > Len(p.normalized) THEN Finished(p, 200)
  ELSE LET n == p.normalized[p.k]
           key == makeKey(form.user, p.account.id, n.date, n.amount, n.description)
       IN IF key \in p.seen
          THEN loopHead([p EXCEPT !.skippedDuplicate = @ + 1, !.k = @ + 1])
          ELSE [p EXCEPT !.seen = @ \cup {key}, !.pc = "exists"]

\* after Promise.all of the account and the category: into the loop
afterSetup(p) ==
  IF p.acctPc = "done" /\ p.catPc = "done" THEN loopHead(p) ELSE p

\* session, form, file and parse: lines 91-126
ImportBegin(i) ==
  /\ procs[i].pc = "start"
  /\ LET parsed == parseCsv(upload.text)
         rows == parsed.records
         normalized == [k \in 1..(Len(rows) - 1) |->
                          normalizeRowImport(rows[1], rows[k + 1], form.mapping)]
     IN procs' =
          [procs EXCEPT ![i] =
             IF form.user = NoId THEN Finished(@, 401)
             ELSE IF ~upload.present THEN Finished(@, 400)
             ELSE IF ~ImportFormSchemaOk(form) THEN Finished(@, 400)
             ELSE IF parsed.threw THEN Finished(@, 500)
             ELSE IF ~hasDataRows(rows) THEN Finished(@, 400)
             ELSE [@ EXCEPT !.pc = "setup", !.normalized = normalized]]
  /\ UNCHANGED <<accounts, merchants, categories, ledger>>
  /\ ProcStep

\* getOrCreateAccount: prisma.account.findFirst
AccountFindFirst(i) ==
  /\ procs[i].pc = "setup" /\ procs[i].acctPc = "find"
  /\ LET found == {a \in accounts : a.userId = form.user /\ a.name = form.accountName}
     IN procs' =
          [procs EXCEPT ![i] =
             IF found # {}
             THEN afterSetup([@ EXCEPT !.account = CHOOSE a \in found : TRUE,
                                       !.acctPc = "done"])
             ELSE [@ EXCEPT !.acctPc = "create"]]
  /\ UNCHANGED <<accounts, merchants, categories, ledger>>
  /\ ProcStep

\* getOrCreateAccount: prisma.account.create
AccountCreate(i) ==
  /\ procs[i].pc = "setup" /\ procs[i].acctPc = "create"
  /\ LET made == [id |-> <<"a","c","c","t">> \o natToString(Cardinality(accounts) + 1),
                  userId |-> form.user, name |-> form.accountName, type |-> "OTHER"]
     IN /\ accounts' = accounts \cup {made}
        /\ procs' = [procs EXCEPT ![i] =
                       afterSetup([@ EXCEPT !.account = made, !.acctPc = "done"])]
  /\ UNCHANGED <<merchants, categories, ledger>>
  /\ ProcStep

\* getUncategorizedCategory: prisma.category.findFirst
CategoryFindFirst(i) ==
  /\ procs[i].pc = "setup" /\ procs[i].catPc = "find"
  /\ LET found == {c \in categories : c.name = UncategorizedName}
     IN procs' =
          [procs EXCEPT ![i] =
             IF found # {}
             THEN afterSetup([@ EXCEPT !.category = CHOOSE c \in found : TRUE,
                                       !.catPc = "done"])
             ELSE [@ EXCEPT !.catPc = "create"]]
  /\ UNCHANGED <<accounts, merchants, categories, ledger>>
  /\ ProcStep

\* getUncategorizedCategory: prisma.category.create
CategoryCreate(i) ==
  /\ procs[i].pc = "setup" /\ procs[i].catPc = "create"
  /\ LET made == [id |-> <<"c">> \o natToString(Cardinality(categories) + 1),
                  name |-> UncategorizedName]
     IN /\ categories' = categories \cup {made}
        /\ procs' = [procs EXCEPT ![i] =
                       afterSetup([@ EXCEPT !.category = made, !.catPc = "done"])]
  /\ UNCHANGED <<accounts, merchants, ledger>>
  /\ ProcStep

\* prisma.transaction.findFirst for the row (lines 145-158)
TransactionFindFirst(i) ==
  /\ procs[i].pc = "exists"
  /\ LET p == procs[i]
         n == p.normalized[p.k]
         d == newDate(n.date)
     IN procs' =
          [procs EXCEPT ![i] =
             IF d.invalid THEN Finished(@, 500)
             ELSE IF existsTransaction(ledger, form.user, p.account.id, d, n.amount,
                                       n.description)
             THEN loopHead([@ EXCEPT !.skippedDuplicate = @ + 1, !.k = @ + 1])
             ELSE [@ EXCEPT !.pc = "merchantFind"]]
  /\ UNCHANGED <<accounts, merchants, categories, ledger>>
  /\ ProcStep

\* n = (name || "").trim() || "Unknown"
merchantNameOf(name) == IF trim(name) = <<>> THEN <<"U","n","k","n","o","w","n">> ELSE trim(name)

\* getOrCreateMerchant: prisma.merchant.findFirst
MerchantFindFirst(i) ==
  /\ procs[i].pc = "merchantFind"
  /\ LET p == procs[i]
         found == {m \in merchants : m.name = merchantNameOf(p.normalized[p.k].merchant)}
     IN procs' =
          [procs EXCEPT ![i] =
             IF found # {}
             THEN [@ EXCEPT !.merchant = CHOOSE m \in found : TRUE, !.pc = "txCreate"]
             ELSE [@ EXCEPT !.pc = "merchantCreate"]]
  /\ UNCHANGED <<accounts, merchants, categories, ledger>>
  /\ ProcStep

\* getOrCreateMerchant: prisma.merchant.create; the unique index on the name
\* rejects a second merchant of that name
MerchantCreate(i) ==
  /\ procs[i].pc = "merchantCreate"
  /\ LET p == procs[i]
         name == merchantNameOf(p.normalized[p.k].merchant)
         made == [id |-> <<"m">> \o natToString(Cardinality(merchants) + 1), name |-> name]
     IN IF \E m \in merchants : m.name = name
        THEN /\ procs' = [procs EXCEPT ![i] = Finished(@, 500)]
             /\ UNCHANGED merchants
        ELSE /\ merchants' = merchants \cup {made}
             /\ procs' = [procs EXCEPT ![i] = [@ EXCEPT !.merchant = made,
                                                        !.pc = "txCreate"]]
  /\ UNCHANGED <<accounts, categories, ledger>>
  /\ ProcStep

\* prisma.transaction.create for the row (lines 162-175)
TransactionCreate(i) ==
  /\ procs[i].pc = "txCreate"
  /\ LET p == procs[i]
         n == p.normalized[p.k]
         tx == [id |-> <<"t","x">> \o natToString(Cardinality(ledger) + 1),
                userId |-> form.user, accountId |-> p.account.id,
                merchantId |-> p.merchant.id, categoryId |-> p.category.id,
                date |-> newDate(n.date).ymd, amount |-> Decimal2(n.amount),
                type |-> n.type, description |-> n.description]
     IN /\ ledger' = ledger \cup {tx}
        /\ procs' = [procs EXCEPT ![i] =
                       loopHead([@ EXCEPT !.inserted = @ + 1, !.k = @ + 1])]
  /\ UNCHANGED <<accounts, merchants, categories>>
  /\ ProcStep

NextConcurrentImport ==
  \E i \in ImportProcs :
    \/ ImportBegin(i)
    \/ AccountFindFirst(i)
    \/ AccountCreate(i)
    \/ CategoryFindFirst(i)
    \/ CategoryCreate(i)
    \/ TransactionFindFirst(i)
    \/ MerchantFindFirst(i)
    \/ MerchantCreate(i)
    \/ TransactionCreate(i)

SpecConcurrentImport == InitConcurrentImport /\ [][NextConcurrentImport]_vars

\* C26: two import requests that overlap, for the same user, account name
\* and file, leave no two persisted transactions with the same (user,
\* account, date, amount, description) and no two accounts of that name for
\* that user.
C26_ConcurrentImportsNoDuplicate ==
  /\ \A t1, t2 \in ledger : DedupTuple(t1) = DedupTuple(t2) => t1 = t2
  /\ \A a1, a2 \in accounts :
       (a1.userId = a2.userId /\ a1.name = a2.name) => a1 = a2

(***************************************************************************)
(* Creating a transaction: POST of src/app/api/transactions/route.ts and   *)
(* the POST of src/unnamed/part_008 (another version of the same route),   *)
(* together with PUT /api/transactions/[id] and the import.                *)
(***************************************************************************)
savingsName == <<"S","a","v","i","n","g","s">>

\* request bodies of a create: valid is what CreateTransactionSchema
\* .safeParse says; the accounts are bob's, alice's and one that is not
\* there
CreateBodies ==
  { [valid |-> TRUE,
     data |-> [accountId |-> a, date |-> <<"2","0","2","5","-","1","0","-","1","4">>, amount |-> Cents(1250),
               type |-> EXPENSE, description |-> <<"L","u","n","c","h">>]] :
      a \in {<<"a","c","c","t","1">>, <<"a","c","c","t","2">>, <<"a","c","c","t","9">>} }
  \cup
  { [valid |-> TRUE,
     data |-> [accountId |-> <<"a","c","c","t","2">>, date |-> <<"n","/","a">>, amount |-> Cents(1250),
               type |-> EXPENSE, description |-> <<"L","u","n","c","h">>]],
    [valid |-> FALSE,
     data |-> [accountId |-> <<"a","c","c","t","1">>, date |-> <<"2","0","2","5","-","1","0","-","1","4">>, amount |-> Cents(1250),
               type |-> EXPENSE]] }

\* the row prisma.transaction.create writes
createdTransaction(userId, data) ==
  [id |-> <<"t","x">> \o natToString(Cardinality(ledger) + 1),
   userId |-> userId, accountId |-> data.accountId,
   merchantId |-> NoId, categoryId |-> NoId,
   date |-> newDate(data.date).ymd, amount |-> Decimal2(data.amount),
   type |-> data.type, description |-> data.description]

\* POST /api/transactions (src/app/api/transactions/route.ts): the account
\* is looked up with the session's user id; a create without a user id, or
\* with an Invalid Date, throws and is answered 500
TransactionPOST(user, auth, body) ==
  /\ steps < MaxTxRequests
  /\ steps' = steps + 1
  /\ form' = TxRequest("POST", user, auth, NoId, body)
  /\ UNCHANGED <<upload, parserCalls, parsedCsv, accounts, merchants, categories>>
  /\ UNCHANGED <<normVars, ruleVars, uiVars>>
  /\ LET userId == sessionUserId(auth, user)
         data == body.data
         account == findFirstOwned(accounts, data.accountId, userId)
     IN IF user = NoId
        THEN reply' = TxReply("POST", 401) /\ UNCHANGED ledger
        ELSE IF ~body.valid
        THEN reply' = TxReply("POST", 400) /\ UNCHANGED ledger
        ELSE IF account = {}
        THEN reply' = TxReply("POST", 404) /\ UNCHANGED ledger
        ELSE IF userId = Undefined \/ newDate(data.date).invalid
        THEN reply' = TxReply("POST", 500) /\ UNCHANGED ledger
        ELSE /\ ledger' = ledger \cup {createdTransaction(userId, data)}
             /\ reply' = TxReply("POST", 201)

\* POST of src/unnamed/part_008: a session with a user id, the five fields
\* present, then the create; the account must exist (foreign key), whose
\* it is is not looked at
TransactionPOST2(user, auth, body) ==
  /\ steps < MaxTxRequests
  /\ steps' = steps + 1
  /\ form' = TxRequest("POST2", user, auth, NoId, body)
  /\ UNCHANGED <<upload, parserCalls, parsedCsv, accounts, merchants, categories>>
  /\ UNCHANGED <<normVars, ruleVars, uiVars>>
  /\ LET userId == sessionUserId(auth, user)
         data == body.data
     IN IF user = NoId \/ userId = Undefined
        THEN reply' = TxReply("POST2", 401) /\ UNCHANGED ledger
        ELSE IF \E k \in {"accountId", "description", "amount", "date", "type"} :
                  ~Has(data, k)
        THEN reply' = TxReply("POST2", 400) /\ UNCHANGED ledger
        ELSE IF (\A a \in accounts : a.id # data.accountId) \/ newDate(data.date).invalid
        THEN reply' = TxReply("POST2", 500) /\ UNCHANGED ledger
        ELSE /\ ledger' = ledger \cup {createdTransaction(userId, data)}
             /\ reply' = TxReply("POST2", 201)

\* an import request of the user for the account name, with a file of one
\* row
LedgerImport(user, name) ==
  /\ steps < MaxTxRequests
  /\ steps' = steps + 1
  /\ form' = [GoodForm EXCEPT !.user = user, !.accountName = name]
  /\ upload' = ImportFile([broken |-> FALSE, lines |-> <<FullHeaders, rPay>>])
  /\ UNCHANGED <<parserCalls, parsedCsv>>
  /\ UNCHANGED <<normVars, ruleVars, uiVars>>
  /\ ImportHandler(form', upload')

InitLedger == InitTx

NextLedger ==
  \/ \E user \in {uAlice, uBob, NoId}, auth \in AuthVariants, body \in CreateBodies :
        TransactionPOST(user, auth, body)
  \/ \E user \in {uAlice, uBob, NoId}, auth \in AuthVariants, body \in CreateBodies :
        TransactionPOST2(user, auth, body)
  \/ \E user \in {uAlice, uBob, NoId}, auth \in AuthVariants, id \in TxIds,
        body \in TxBodies : TransactionPUT(user, auth, id, body)
  \/ \E user \in {uAlice, uBob}, name \in {acctName, savingsName} :
        LedgerImport(user, name)

SpecLedger == InitLedger /\ [][NextLedger]_vars

\* C27: every persisted transaction references an account that exists and
\* is owned by the user who owns the transaction, after any sequence of
\* create, update and import requests.
C27_AccountOfSameUser ==
  \A t \in ledger :
    \E a \in accounts : a.id = t.accountId /\ a.userId = t.userId

(***************************************************************************)
(* Preview, then import, of one file: POST /api/upload-csv, the mapping    *)
(* the page guesses from the headers it answers (page.tsx:152-155), and    *)
(* POST /api/import/transactions with that mapping and the same file.      *)
(***************************************************************************)
\* statements as the bank writes them, and the same from the header on
PreviewTexts ==
  ShortTexts
    \cup {LongText(n) : n \in 1..MaxImportRows}
    \cup {[broken |-> FALSE, lines |-> <<lHeader>> \o [k \in 1..n |-> NumberedLine(k)]] :
            n \in 0..MaxImportRows}

InitPreviewImport ==
  /\ NormIdle
  /\ RulesIdle
  /\ UiIdle
  /\ upload \in {CsvFile(t) : t \in PreviewTexts}
  /\ form = NoForm
  /\ parserCalls = 0
  /\ parsedCsv = NoParse
  /\ accounts = {}
  /\ merchants = {}
  /\ categories = {}
  /\ ledger = {}
  /\ reply = NoResponse
  /\ steps = 0

\* the import request the page sends after a preview that answered headers
ImportAfterPreview ==
  /\ steps = 1
  /\ reply.endpoint = "upload" /\ reply.status = 200
  /\ Len(reply.headers) > 0
  /\ steps' = 2
  /\ form' = [user |-> uAlice, accountName |-> acctName,
              mapping |-> withBankKey(deriveBankKey(upload.filename),
                                      guessMapping(reply.headers))]
  /\ UNCHANGED <<upload, parserCalls, parsedCsv>>
  /\ UNCHANGED <<normVars, ruleVars, uiVars>>
  /\ ImportHandler(form', upload)

NextPreviewImport ==
  \/ UploadCsvPOST
  \/ ImportAfterPreview

SpecPreviewImport == InitPreviewImport /\ [][NextPreviewImport]_vars

\* the header row the import handler takes (rows[0]) and the rows it
\* imports (rows.slice(1), when it answers success)
ImportHeaderRow == parseCsv(upload.text).records[1]
ImportedRows ==
  LET rows == parseCsv(upload.text).records
  IN IF reply.status = 200 THEN SubSeq(rows, 2, Len(rows)) ELSE <<>>

\* C28: for one file, the import handler resolves the mapping against the
\* header row the preview answered, and the rows it imports are the rows
\* the preview counted in rowCount, also when lines precede the header row.
C28_ImportFollowsPreview ==
  (ImportAnswered /\ parsedCsv.called) =>
    /\ ImportHeaderRow = parsedCsv.headers
    /\ ImportedRows = parsedCsv.rows
    /\ Len(ImportedRows) = Len(parsedCsv.rows)

(***************************************************************************)
(* Whose rules and transactions the rules-test endpoints use, and rules    *)
(* whose pattern is empty or white space.                                  *)
(***************************************************************************)
\* the transactions an answer reports on
ReportedTxIds ==
  IF response.endpoint = "POST"
  THEN {response.results[k].txId : k \in DOMAIN response.results}
  ELSE {response.sample[k].id : k \in DOMAIN response.sample}

\* C29: an answer of the rules-test endpoint is computed from the rules of
\* one user, the requesting one, and reports only on that user's
\* transactions.
C29_OnlyOwnRulesAndTransactions ==
  (requests > 0 /\ response.status = 200) =>
    \E u \in Users :
      /\ response.user # Null => u = response.user
      /\ \A i \in DOMAIN loaded : loaded[i].userId = u
      /\ \A id \in ReportedTxIds : TxById(id).userId = u

\* stored rules with an empty pattern, a pattern of one space, and PETRO
BlankRulePool ==
  { RuleOf(Template("empty"), 10, "u1"), RuleOf(Template("blank"), 10, "u1"),
    RuleOf(Template("petro"), 20, "u1"), RuleOf(Template("empty"), 10, "u2") }

InitBlankRules ==
  /\ NormIdle
  /\ rulesTable \in {s \in SUBSET BlankRulePool : Cardinality(s) \in 1..MaxRules}
  /\ txTable \in {s \in SUBSET TxPool : Cardinality(s) \in 1..MaxTxs}
  /\ uncategorized \in {Null, catUncategorized}
  /\ requests = 0
  /\ loaded = <<>>
  /\ response = NoResponse
  /\ prevResponse = NoResponse
  /\ IoIdle
  /\ UiIdle

SpecBlankRules == InitBlankRules /\ [][NextRules]_vars

\* the loaded rules whose pattern is empty or only white space
BlankRuleIds ==
  {loaded[i].id : i \in {j \in DOMAIN loaded : trim(loaded[j].pattern) = <<>>}}

\* the rule each reported transaction was matched by (Null for none)
ReportedRuleIds ==
  IF response.endpoint = "POST"
  THEN {response.results[k].matchedRuleId : k \in DOMAIN response.results}
  ELSE {response.sample[k].ruleId : k \in DOMAIN response.sample}

\* C30: a rule whose pattern is empty or only white space matches no
\* transaction, in applyRulesToTransaction and in the compiled matcher of
\* applyRulesToBatch.
C30_BlankPatternNeverMatches ==
  (requests > 0 /\ response.status = 200) =>
    ReportedRuleIds \cap BlankRuleIds = {}

====
